---- MODULE Spec2Model ----
(***************************************************************************)
(* Order reconciliation of the WhatsApp sales assistant:                   *)
(*   app/utils/validators.py   get_missing_fields                          *)
(*   app/services/orders.py    process_order                               *)
(*   app/services/supabase.py  the order store calls                       *)
(*   app/utils/memory.py       user_pending_data, user_orders              *)
(*                                                                         *)
(* Python values are tagged records: None, Str(<<chars>>), Num(n),         *)
(* List(<<items>>).  A str is a tuple of one-character strings so that     *)
(* upper(), lower(), strip() and startswith() are computed, not assumed.   *)
(* A dict is a function whose DOMAIN is the set of keys present.           *)
(***************************************************************************)
EXTENDS Integers, Sequences, FiniteSets, TLC

VARIABLES user_pending_data, user_orders, orders, stock, clock, tasks, calls,
          gem, ext, user_histories, outbox, handlers, resolved

vars == <<user_pending_data, user_orders, orders, stock, clock, tasks, calls,
          gem, ext, user_histories, outbox, handlers, resolved>>

(***************************************************************************)
(* Bounds of the model.                                                    *)
(***************************************************************************)
MaxCalls == 2
MaxMerges == 2
MaxClock == 6
InitStock == 3

(***************************************************************************)
(* Python values.                                                          *)
(***************************************************************************)
None == [t |-> "none"]
Str(s) == [t |-> "str", s |-> s]
Num(n) == [t |-> "num", n |-> n]
List(items) == [t |-> "list", items |-> items]

isinstance_str(v) == v.t = "str"

\* Python truthiness: None, "", 0 and [] are falsy.
Truthy(v) ==
    CASE v.t = "none" -> FALSE
      [] v.t = "str"  -> v.s # <<>>
      [] v.t = "num"  -> v.n # 0
      [] v.t = "list" -> v.items # <<>>

(***************************************************************************)
(* str methods, computed character by character.                           *)
(***************************************************************************)
LowerChars == <<"a","b","c","d","e","f","g","h","i","j","k","l","m","n","o",
                "p","q","r","s","t","u","v","w","x","y","z","á","é","í","ó","ú","ñ">>
UpperChars == <<"A","B","C","D","E","F","G","H","I","J","K","L","M","N","O",
                "P","Q","R","S","T","U","V","W","X","Y","Z","Á","É","Í","Ó","Ú","Ñ">>

IndexIn(c, seq) == IF \E i \in 1..Len(seq) : seq[i] = c
                   THEN CHOOSE i \in 1..Len(seq) : seq[i] = c
                   ELSE 0

upper_char(c) == IF IndexIn(c, LowerChars) # 0 THEN UpperChars[IndexIn(c, LowerChars)] ELSE c
lower_char(c) == IF IndexIn(c, UpperChars) # 0 THEN LowerChars[IndexIn(c, UpperChars)] ELSE c

upper(s) == [i \in 1..Len(s) |-> upper_char(s[i])]
lower(s) == [i \in 1..Len(s) |-> lower_char(s[i])]

Whitespace == {" ", "\t", "\n"}

RECURSIVE lstrip(_)
lstrip(s) == IF s # <<>> /\ Head(s) \in Whitespace THEN lstrip(Tail(s)) ELSE s

RECURSIVE rstrip(_)
rstrip(s) == IF s # <<>> /\ s[Len(s)] \in Whitespace
             THEN rstrip(SubSeq(s, 1, Len(s) - 1))
             ELSE s

strip(s) == rstrip(lstrip(s))

startswith(s, prefix) ==
    /\ Len(s) >= Len(prefix)
    /\ SubSeq(s, 1, Len(prefix)) = prefix

(***************************************************************************)
(* dict operations.                                                        *)
(***************************************************************************)
EmptyDict == [k \in {} |-> None]

\* d.get(k) / d.get(k, default)
dict_get(d, k, default) == IF k \in DOMAIN d THEN d[k] ELSE default

\* d[k] = v
dict_set(d, k, v) == [x \in DOMAIN d \cup {k} |-> IF x = k THEN v ELSE d[x]]

\* d.clear() in the place of d.pop(k, None)
dict_pop_all(d, k) == [x \in {} |-> d[x]]

\* d.pop(k, None)
dict_pop(d, k) == [x \in DOMAIN d \ {k} |-> d[x]]

(***************************************************************************)
(* app/utils/validators.py                                                 *)
(***************************************************************************)
REQUIRED_FIELDS == <<"name", "address", "phone", "payment_method">>

PLACEHOLDER_VALUES ==
    { <<"N","O","M","B","R","E">>,
      <<"D","I","R","E","C","C","I","Ó","N">>,
      <<"T","E","L","É","F","O","N","O">>,
      <<"T","I","P","O","_","P","A","G","O">> }

tu_prefix == <<"t","u"," ">>

\* isinstance(v, str) and v.strip().lower().startswith("tu ")
is_tu_placeholder(v) ==
    isinstance_str(v) /\ startswith(lower(strip(v.s)), tu_prefix)

\* the condition of the if in get_missing_fields, for one value
is_missing_value(val) ==
    \/ ~Truthy(val)
    \/ /\ isinstance_str(val)
       /\ \/ upper(val.s) \in PLACEHOLDER_VALUES
          \/ startswith(lower(strip(val.s)), tu_prefix)

field_is_missing(data, f) == is_missing_value(dict_get(data, f, None))

\* get_missing_fields(data): the required fields, in order, that are missing
get_missing_fields(data) ==
    SelectSeq(REQUIRED_FIELDS, LAMBDA f : field_is_missing(data, f))

(***************************************************************************)
(* app/services/orders.py, process_order, steps 1 and 2: the merge.        *)
(***************************************************************************)
\* the two tests of the merge loop: a value is copied unless it starts with
\* "tu " or is None
merge_accepts(value) == ~is_tu_placeholder(value) /\ value # None

\* a merge that adds the incoming line items to the stored ones
merge_appending(pending, order_data) ==
    LET copied == {k \in DOMAIN order_data : merge_accepts(order_data[k])}
    IN  [k \in DOMAIN pending \cup copied |->
            IF k \in copied
            THEN IF k = "products" /\ k \in DOMAIN pending /\ pending[k].t = "list"
                    /\ order_data[k].t = "list"
                 THEN List(pending[k].items \o order_data[k].items)
                 ELSE order_data[k]
            ELSE pending[k]]

\* for key, value in order_data.items(): ... pending[key] = value
merge(pending, order_data) ==
    LET copied == {k \in DOMAIN order_data : merge_accepts(order_data[k])}
    IN  [k \in DOMAIN pending \cup copied |->
            IF k \in copied THEN order_data[k] ELSE pending[k]]

RequiredSet == {REQUIRED_FIELDS[i] : i \in 1..Len(REQUIRED_FIELDS)}

\* for field in REQUIRED_FIELDS: a "tu ..." value becomes None
convert_placeholders(pending) ==
    [k \in DOMAIN pending |->
        IF k \in RequiredSet /\ is_tu_placeholder(dict_get(pending, k, Str(<<>>)))
        THEN None
        ELSE pending[k]]

\* steps 1 and 2 together: the PendingOrder after a payload is merged
merge_step(pending, order_data) == convert_placeholders(merge(pending, order_data))

(***************************************************************************)
(* Inputs: users, strings, line items and payloads.                        *)
(***************************************************************************)
Users == {"u1", "u2"}

s_Ana == <<"A","n","a">>
s_Bo == <<"B","o">>
s_Calle1 == <<"C","a","l","l","e"," ","1">>
s_cash == <<"c","a","s","h">>
s_300 == <<"3","0","0">>
s_301 == <<"3","0","1">>
s_NOMBRE == <<"N","O","M","B","R","E">>
s_nombre == <<"n","o","m","b","r","e">>
s_tu_nombre == <<"t","u"," ","n","o","m","b","r","e">>
s_Tu_Nombre == <<" ","T","u"," ","N","o","m","b","r","e">>
s_direccion == <<"d","i","r","e","c","c","i","ó","n">>
\* the token the sales prompt of handle_user_message puts in its JSON template
s_NOMBRE_OBTENIDO_O_NULL ==
    <<"N","O","M","B","R","E","_","O","B","T","E","N","I","D","O","_","O","_","N","U","L","L">>

Products == {"Tequila", "Ron"}

Item(name, quantity) == [name |-> name, quantity |-> quantity, price |-> 10]

items_T2 == <<Item("Tequila", 2)>>
items_T1R2 == <<Item("Tequila", 1), Item("Ron", 2)>>

\* an order_details object with every key of the JSON template
Payload(name, address, phone, payment_method, products, total) ==
    [k \in {"name", "address", "phone", "payment_method", "products", "total"} |->
        CASE k = "name" -> name
          [] k = "address" -> address
          [] k = "phone" -> phone
          [] k = "payment_method" -> payment_method
          [] k = "products" -> products
          [] k = "total" -> total]

Contacts(name, phone) ==
    Payload(name, Str(s_Calle1), phone, Str(s_cash), None, None)

FullOrder(name, phone, items) ==
    Payload(name, Str(s_Calle1), phone, Str(s_cash), List(items), Num(25))

\* what a name field can carry
NameInputs ==
    { None, Str(<<>>), Str(s_Ana), Str(s_Bo), Str(s_NOMBRE), Str(s_nombre),
      Str(s_tu_nombre), Str(s_Tu_Nombre), Str(s_NOMBRE_OBTENIDO_O_NULL) }

\* the payloads handed to process_order
OrderPayloads ==
    { Payload(None, None, None, None, List(items_T2), Num(25)),
      Contacts(Str(s_Ana), Str(s_300)),
      FullOrder(Str(s_Bo), Str(s_300), items_T1R2),
      FullOrder(Str(s_NOMBRE), Str(s_300), items_T2),
      FullOrder(Str(s_Ana), Str(s_300), <<>>),
      Contacts(Str(s_NOMBRE_OBTENIDO_O_NULL), Str(s_301)) }

(***************************************************************************)
(* State.                                                                  *)
(*   user_pending_data  app/utils/memory.py: user -> PendingOrder dict     *)
(*   user_orders        app/utils/memory.py: user -> {id, timestamp}       *)
(*   orders             the orders table; the id of a record is its index  *)
(*   stock              the stock column of the products table             *)
(*   clock              datetime.now(timezone.utc), in minutes             *)
(*   tasks              the process_order calls suspended at an await      *)
(*   calls              number of process_order calls begun                *)
(* A call runs from one await to the next without interruption (asyncio);  *)
(* each action is the completion of the awaited call followed by the code  *)
(* up to the next await.                                                   *)
(*                                                                         *)
(* `pending` in process_order is a reference to the dict stored in         *)
(* user_pending_data.  tasks[t].live says that the reference still is the  *)
(* stored dict; a pop of the entry leaves the suspended calls of that user *)
(* with the dict as it was (snap), which nothing mutates any more.         *)
(***************************************************************************)
TaskIds == {1, 2}

FIVE_MINUTES == 5

IdleTask ==
    [pc |-> "idle", user |-> "-", live |-> FALSE, snap |-> EmptyDict, now |-> 0,
     phone |-> None, existing |-> 0, payload |-> EmptyDict, action |-> "-",
     res_id |-> 0, items |-> <<>>, i |-> 0]

\* the variables of process_order, of the generation gateway, of the payload
\* extractor and of the message handler
order_vars == <<user_pending_data, user_orders, orders, stock, clock, tasks, calls>>
gateway_vars == <<gem>>
extractor_vars == <<ext, resolved>>
handler_vars == <<user_histories, outbox, handlers>>

HandlerIds == {1, 2}

\* no ask_gemini_with_history call
IdleGem ==
    [pc |-> "idle", current_retry |-> 0, current_backoff |-> 0, attempts |-> 0,
     sleeps |-> <<>>, seen |-> <<>>, result |-> None]

\* no extract_order_data call
IdleExt == [pc |-> "idle", reply |-> None, order_data |-> None, clean |-> None]

\* no match_target_in_catalog call
NotResolved == [pc |-> "idle"]

\* no handle_user_message call
IdleHandler ==
    [pc |-> "idle", user |-> "-", reply |-> None, order_data |-> None,
     clean |-> None, task |-> 0]

InitOthers ==
    /\ gem = IdleGem
    /\ ext = IdleExt
    /\ resolved = NotResolved
    /\ user_histories = [u \in {} |-> <<>>]
    /\ outbox = <<>>
    /\ handlers = [h \in HandlerIds |-> IdleHandler]

Init ==
    /\ InitOthers
    /\ user_pending_data = [u \in {} |-> EmptyDict]
    /\ user_orders = [u \in {} |-> [id |-> 0, timestamp |-> 0]]
    /\ orders = <<>>
    /\ stock = [p \in Products |-> InitStock]
    /\ clock = 0
    /\ tasks = [t \in TaskIds |-> IdleTask]
    /\ calls = 0

\* the dict the local variable `pending` of call t refers to
PendingOf(t) ==
    IF tasks[t].live THEN user_pending_data[tasks[t].user] ELSE tasks[t].snap

\* created_at=gte.{since}: the records of the phone number inside the window
recent_orders(phone_number, since_time) ==
    {id \in 1..Len(orders) :
        /\ orders[id].phone_number = phone_number
        /\ orders[id].created_at >= since_time}

\* supabase_payload, built from pending and now
supabase_payload(pending, now) ==
    [phone_number |-> pending["phone"],
     name |-> pending["name"],
     address |-> pending["address"],
     payment_method |-> pending["payment_method"],
     products |-> pending["products"],
     total |-> pending["total"],
     created_at |-> now]

\* pending["products"] and pending["total"] raise KeyError on an absent key
payload_keys_present(pending) ==
    {"phone", "name", "address", "payment_method", "products", "total"} \subseteq DOMAIN pending

\* update_product_stock(name, quantity)
update_product_stock(st, name, quantity) ==
    IF name \in DOMAIN st
    THEN [st EXCEPT ![name] = IF @ - quantity < 0 THEN 0 ELSE @ - quantity]
    ELSE st

\* the arguments of the call in the stock loop: prod["name"], prod["quantity"]
stock_call(prod) == <<prod.name, prod.quantity>>

\* user_pending_data.pop(from_number, None); the suspended calls of the user
\* keep their reference to the popped dict
detach(ts, u) ==
    [t \in TaskIds |->
        IF ts[t].pc # "idle" /\ ts[t].user = u /\ ts[t].live
        THEN [ts[t] EXCEPT !.live = FALSE, !.snap = user_pending_data[u]]
        ELSE ts[t]]

\* the end of process_order after the stock loop: user_orders, pop, return
Finish(t, ts) ==
    LET u == tasks[t].user IN
    /\ user_orders' = dict_set(user_orders, u, [id |-> ts[t].res_id, timestamp |-> tasks[t].now])
    /\ user_pending_data' = dict_pop(user_pending_data, u)
    /\ tasks' = [detach(ts, u) EXCEPT ![t] = IdleTask]

\* process_order(from_number, order_data) up to its first await: merge,
\* placeholder conversion, validation, and the call of the dedup lookup
Start(u, order_data) ==
    /\ calls < MaxCalls
    /\ \E t \in TaskIds : tasks[t].pc = "idle"
    /\ LET t == CHOOSE x \in TaskIds :
                   tasks[x].pc = "idle" /\ \A y \in TaskIds : tasks[y].pc = "idle" => x <= y
           pending == merge_step(dict_get(user_pending_data, u, EmptyDict), order_data)
           faltantes == get_missing_fields(pending)
       IN  /\ user_pending_data' = dict_set(user_pending_data, u, pending)
           /\ IF faltantes # <<>>
              THEN tasks' = tasks
              ELSE tasks' = [tasks EXCEPT ![t] =
                            [IdleTask EXCEPT !.pc = "lookup", !.user = u, !.live = TRUE,
                                             !.now = clock, !.phone = pending["phone"]]]
    /\ calls' = calls + 1
    /\ UNCHANGED <<user_orders, orders, stock, clock>>

\* an awaited store call raises (network failure, unexpected body), or
\* process_order raises KeyError: the exception leaves process_order
Raise(t) ==
    /\ tasks' = [tasks EXCEPT ![t] = IdleTask]
    /\ UNCHANGED <<user_pending_data, user_orders, orders, stock, clock, calls>>

\* get_recent_order_by_phone_number returns; supabase_payload is built and
\* the update or the insert is called
Lookup(t) ==
    /\ tasks[t].pc = "lookup"
    /\ LET recent == recent_orders(tasks[t].phone, tasks[t].now - FIVE_MINUTES)
           pending == PendingOf(t)
       IN  \E existing \in (IF recent = {} THEN {0} ELSE recent) :
              IF payload_keys_present(pending)
              THEN /\ tasks' = [tasks EXCEPT ![t].pc = "write",
                                             ![t].existing = existing,
                                             ![t].payload = supabase_payload(pending, tasks[t].now)]
                   /\ UNCHANGED <<user_pending_data, user_orders, orders, stock, clock, calls>>
              ELSE Raise(t)

LookupRaises(t) ==
    /\ tasks[t].pc = "lookup"
    /\ Raise(t)

\* update_order_in_supabase / save_order_to_supabase returns the record;
\* the stock loop begins, or with no line item the call finishes
Write(t) ==
    /\ tasks[t].pc = "write"
    /\ LET existing == tasks[t].existing
           res_id == IF existing # 0 THEN existing ELSE Len(orders) + 1
           items == PendingOf(t)["products"].items
           ts == [tasks EXCEPT ![t].res_id = res_id,
                               ![t].action = IF existing # 0 THEN "updated" ELSE "created",
                               ![t].items = items,
                               ![t].i = 1,
                               ![t].pc = "stock"]
       IN  /\ orders' = IF existing # 0
                        THEN [orders EXCEPT ![existing] = tasks[t].payload]
                        ELSE Append(orders, tasks[t].payload)
           /\ IF items = <<>>
              THEN /\ Finish(t, [ts EXCEPT ![t].pc = "write"])
                   /\ UNCHANGED <<stock, clock, calls>>
              ELSE /\ tasks' = ts
                   /\ UNCHANGED <<user_pending_data, user_orders, stock, clock, calls>>

\* the store answers without a record and the stock of the first line item
\* is taken before the call returns
WriteReturnsNoneTakesStock(t) ==
    /\ tasks[t].pc = "write"
    /\ tasks' = [tasks EXCEPT ![t] = IdleTask]
    /\ LET items == PendingOf(t)["products"].items
       IN  stock' = IF items = <<>> THEN stock
                    ELSE update_product_stock(stock, items[1].name, items[1].quantity)
    /\ UNCHANGED <<user_pending_data, user_orders, orders, clock, calls>>

\* the store answers without a record: res is None, {"status": "error"}
WriteReturnsNone(t) ==
    /\ tasks[t].pc = "write"
    /\ tasks' = [tasks EXCEPT ![t] = IdleTask]
    /\ UNCHANGED <<user_pending_data, user_orders, orders, stock, clock, calls>>

WriteRaises(t) ==
    /\ tasks[t].pc = "write"
    /\ Raise(t)

\* update_product_stock returns for line item i; next item, or finish
Stock(t) ==
    /\ tasks[t].pc = "stock"
    /\ LET call == stock_call(tasks[t].items[tasks[t].i])
       IN  stock' = update_product_stock(stock, call[1], call[2])
    /\ IF tasks[t].i = Len(tasks[t].items)
       THEN /\ Finish(t, tasks)
            /\ UNCHANGED <<orders, clock, calls>>
       ELSE /\ tasks' = [tasks EXCEPT ![t].i = @ + 1]
            /\ UNCHANGED <<user_pending_data, user_orders, orders, clock, calls>>

StockRaises(t) ==
    /\ tasks[t].pc = "stock"
    /\ Raise(t)

\* time passes between two readings of the clock
TickSteps == {3, 5}

Tick(d) ==
    /\ clock + d <= MaxClock
    /\ clock' = clock + d
    /\ UNCHANGED <<user_pending_data, user_orders, orders, stock, tasks, calls>>

\* a step of process_order changes nothing of the other components
OrdersOnly == UNCHANGED <<gateway_vars, extractor_vars, handler_vars>>

Next ==
    \/ \E u \in Users, d \in OrderPayloads : Start(u, d) /\ OrdersOnly
    \/ \E t \in TaskIds : Lookup(t) /\ OrdersOnly
    \/ \E t \in TaskIds : LookupRaises(t) /\ OrdersOnly
    \/ \E t \in TaskIds : Write(t) /\ OrdersOnly
    \/ \E t \in TaskIds : WriteReturnsNone(t) /\ OrdersOnly
    \/ \E t \in TaskIds : WriteRaises(t) /\ OrdersOnly
    \/ \E t \in TaskIds : Stock(t) /\ OrdersOnly
    \/ \E t \in TaskIds : StockRaises(t) /\ OrdersOnly
    \/ \E d \in TickSteps : Tick(d) /\ OrdersOnly

Spec == Init /\ [][Next]_vars

(***************************************************************************)
(* The merge of process_order on its own: a PendingOrder drawn from        *)
(* PendingInputs, payloads drawn from MergePayloads, and steps 1 and 2 of  *)
(* process_order applied to the entry of one user.                         *)
(***************************************************************************)
Absent == [t |-> "absent"]

\* the dict with the keys whose value is given
Present(d) == [k \in {x \in DOMAIN d : d[x] # Absent} |-> d[k]]

\* a stored PendingOrder holds only values the merge copies
PendingInputs ==
    { Present(Payload(n, Absent, ph, Absent, pr, Absent)) :
        n \in {v \in NameInputs : merge_accepts(v)} \cup {Absent},
        ph \in {Absent, Str(s_300)},
        pr \in {Absent, List(items_T2)} }

MergePayloads ==
    { Present(Payload(n, a, ph, Absent, pr, Absent)) :
        n \in NameInputs \cup {Absent},
        a \in {Absent, Str(s_Calle1), Str(s_direccion)},
        ph \in {None, Str(s_301)},
        pr \in {Absent, None, List(items_T1R2)} }

MergeUser == "u1"

InitMerge ==
    /\ InitOthers
    /\ user_pending_data \in {[u \in {MergeUser} |-> p] : p \in PendingInputs}
    /\ user_orders = [u \in {} |-> [id |-> 0, timestamp |-> 0]]
    /\ orders = <<>>
    /\ stock = [p \in Products |-> InitStock]
    /\ clock = 0
    /\ tasks = [t \in TaskIds |-> IdleTask]
    /\ calls = 0

\* lines 88-101 of process_order for one payload
MergeStep(u, order_data) ==
    /\ calls < MaxMerges
    /\ user_pending_data' =
          dict_set(user_pending_data, u,
                   merge_step(dict_get(user_pending_data, u, EmptyDict), order_data))
    /\ calls' = calls + 1
    /\ UNCHANGED <<user_orders, orders, stock, clock, tasks>>

NextMerge ==
    \E d \in MergePayloads : MergeStep(MergeUser, d) /\ OrdersOnly

SpecMerge == InitMerge /\ [][NextMerge]_vars

(***************************************************************************)
(* Steps of a call, as seen in one transition.                             *)
(***************************************************************************)
\* process_order returns {"status": "missing"}
ReturnsMissing(u, d) == Start(u, d) /\ tasks' = tasks

\* process_order returns "created" or "updated"
Succeeds(t) ==
    \/ Stock(t) /\ tasks[t].i = Len(tasks[t].items)
    \/ Write(t) /\ tasks'[t].pc = "idle"

\* the write returns no record, or a store or stock call raises
Fails(t) == WriteReturnsNone(t) \/ WriteRaises(t) \/ StockRaises(t) \/ LookupRaises(t)

\* pending["products"] or pending["total"] raises KeyError
RaisesKeyError(t) == Lookup(t) /\ ~payload_keys_present(PendingOf(t))

Abs(x) == IF x < 0 THEN -x ELSE x

\* a payload that adds no field
NoNewFields == Payload(None, None, None, None, None, None)

\* products or total absent, or an empty products list
order_incomplete(p) ==
    \/ "products" \notin DOMAIN p
    \/ "total" \notin DOMAIN p
    \/ ~Truthy(p["products"])

\* a member of PLACEHOLDER_VALUES in any letter case, or a "tu ..." string
recognized_placeholder(v) ==
    /\ isinstance_str(v)
    /\ \/ upper(v.s) \in PLACEHOLDER_VALUES
       \/ is_tu_placeholder(v)

\* the tokens of the JSON template in the sales prompt
TemplateTokens == {Str(s_NOMBRE_OBTENIDO_O_NULL)}

(***************************************************************************)
(* Claims.                                                                 *)
(***************************************************************************)

\* C1: an OrderRecord is written (inserted or updated) by a call only if, at
\* the moment of the write, the PendingOrder of the call has name, address,
\* phone and payment_method all present, non-empty and non-placeholder, that
\* is, validation of it returns no missing field.
C1_WriteOnlyWhenComplete ==
    [][\A t \in TaskIds : Write(t) => get_missing_fields(PendingOf(t)) = <<>>]_vars

\* C2: dedup window.  A finalization that inserts a record leaves no other
\* record of the same customer key finalized less than 5 minutes from it (two
\* finalizations less than 5 minutes apart leave one record: the second
\* updates); a finalization that updates a record is not more than 5 minutes
\* from the record's last finalization (more than 5 minutes apart: two records).
C2_DedupWindow ==
    [][\A t \in TaskIds : Write(t) =>
          LET now == tasks[t].now
              key == tasks[t].payload.phone_number
              existing == tasks[t].existing
              near == {id \in 1..Len(orders) :
                          /\ orders[id].phone_number = key
                          /\ Abs(now - orders[id].created_at) < FIVE_MINUTES}
          IN  /\ existing = 0 => near = {}
              /\ existing # 0 => Abs(now - orders[existing].created_at) <= FIVE_MINUTES]_vars

\* C3: a PendingOrder whose products or total is absent (or whose products
\* list is empty) is incomplete: process_order returns 'missing' exactly when
\* a contact field is missing or the order is incomplete, and no call raises
\* KeyError on pending["products"] or pending["total"].
C3_IncompleteOrderIsMissing ==
    [][/\ \A u \in Users, d \in OrderPayloads :
             Start(u, d) =>
                 LET p == user_pending_data'[u]
                 IN  (tasks' = tasks) <=> (get_missing_fields(p) # <<>> \/ order_incomplete(p))
       /\ \A t \in TaskIds : ~RaisesKeyError(t)]_vars

\* C4: placeholder rejection.  When name is absent from a PendingOrder and the
\* merged payload carries a recognized placeholder as name, name is still
\* absent (no key, or None) after the merge and is reported as missing.
C4_PlaceholderRejected ==
    [][\A d \in MergePayloads :
          (/\ MergeStep(MergeUser, d)
           /\ dict_get(user_pending_data[MergeUser], "name", None) = None
           /\ "name" \in DOMAIN d
           /\ recognized_placeholder(d["name"]))
          => /\ dict_get(user_pending_data'[MergeUser], "name", None) = None
             /\ field_is_missing(user_pending_data'[MergeUser], "name")]_vars

\* C5: merge never clobbers real data.  A field that holds a real value is
\* unchanged by a merge whose incoming value for it is null, empty or a
\* placeholder.
C5_MergeKeepsRealData ==
    [][\A d \in MergePayloads :
          MergeStep(MergeUser, d) =>
              \A f \in DOMAIN user_pending_data[MergeUser] \cap DOMAIN d :
                  (/\ ~is_missing_value(user_pending_data[MergeUser][f])
                   /\ is_missing_value(d[f]))
                  => user_pending_data'[MergeUser][f] = user_pending_data[MergeUser][f]]_vars

\* C6: a token of the prompt's JSON template is never the value of a required
\* field of a PendingOrder, nor of an OrderRecord.
C6_TemplateTokensRejected ==
    /\ \A u \in DOMAIN user_pending_data : \A f \in RequiredSet :
          dict_get(user_pending_data[u], f, None) \notin TemplateTokens
    /\ \A id \in 1..Len(orders) :
          /\ orders[id].name \notin TemplateTokens
          /\ orders[id].address \notin TemplateTokens
          /\ orders[id].phone_number \notin TemplateTokens
          /\ orders[id].payment_method \notin TemplateTokens

\* C7: after a failed finalization (the write returns no record, or a store
\* or stock call raises) user_pending_data is as before, the entry of the user
\* is there, and a later call whose payload adds no field passes validation.
C7_FailureKeepsPending ==
    [][\A t \in TaskIds :
          Fails(t) =>
              /\ user_pending_data' = user_pending_data
              /\ tasks[t].user \in DOMAIN user_pending_data'
              /\ get_missing_fields(
                     merge_step(user_pending_data'[tasks[t].user], NoNewFields)) = <<>>]_vars

\* C8: after a call returns 'created' or 'updated' user_pending_data has no
\* entry for its user; after any other outcome ('missing', 'error', an
\* exception) the entry is present.
C8_ClearedExactlyOnSuccess ==
    [][/\ \A t \in TaskIds :
             Succeeds(t) => tasks[t].user \notin DOMAIN user_pending_data'
       /\ \A t \in TaskIds :
             (Fails(t) \/ RaisesKeyError(t)) => tasks[t].user \in DOMAIN user_pending_data'
       /\ \A u \in Users, d \in OrderPayloads :
             ReturnsMissing(u, d) => u \in DOMAIN user_pending_data']_vars

\* C9: on a finalization the line items whose stock is taken are the line
\* items of the OrderRecord the call has written; each stock call lowers the
\* stock of the product named by its line item by the item's quantity, not
\* below zero, and changes no other product; the call succeeds only after the
\* last line item.
C9_StockDecrement ==
    [][\A t \in TaskIds :
          /\ Write(t) =>
                /\ stock' = stock
                /\ (IF tasks'[t].pc = "stock" THEN tasks'[t].items ELSE <<>>)
                      = tasks[t].payload["products"].items
                /\ tasks'[t].pc = "stock" => tasks'[t].i = 1
          /\ Stock(t) =>
                LET prod == tasks[t].items[tasks[t].i]
                IN  /\ stock' = [p \in Products |->
                           IF p = prod.name
                           THEN (IF stock[p] - prod.quantity < 0 THEN 0
                                 ELSE stock[p] - prod.quantity)
                           ELSE stock[p]]
                    /\ tasks'[t].pc = "idle" <=> tasks[t].i = Len(tasks[t].items)
                    /\ tasks'[t].pc = "stock" =>
                          /\ tasks'[t].i = tasks[t].i + 1
                          /\ tasks'[t].items = tasks[t].items]_vars

\* C10: merge idempotence.  For the PendingOrder of every reachable state and
\* every payload, the merge (steps 1 and 2 of process_order) applied twice
\* with the payload gives the PendingOrder that applying it once gives.
C10_MergeIdempotent ==
    \A d \in MergePayloads :
        LET once == merge_step(user_pending_data[MergeUser], d)
        IN  merge_step(once, d) = once

\* two merges have been applied and a payload's name and line items are stored
C10_Witness ==
    /\ calls = 2
    /\ dict_get(user_pending_data[MergeUser], "name", None) = Str(s_Bo)
    /\ dict_get(user_pending_data[MergeUser], "products", None) = List(items_T1R2)

(***************************************************************************)
(* Scenario B: one user, a payload with the line items only, then a        *)
(* payload with the four contact fields.  The payload of the first call    *)
(* carries a total or, like the JSON template of the sales prompt, none.   *)
(***************************************************************************)
ItemsOnly(items, total) == Payload(None, None, None, None, List(items), total)

ScenarioItems == {items_T2, items_T1R2}

ScenarioTotals == {None, Num(25)}

ScenarioNames == {Str(s_Ana), Str(s_Bo)}

\* the k-th process_order call of the scenario
StartB(u, order_data) ==
    /\ \/ /\ calls = 0
          /\ \E items \in ScenarioItems, total \in ScenarioTotals :
                order_data = ItemsOnly(items, total)
       \/ /\ calls = 1
          /\ u \in DOMAIN user_pending_data
          /\ \E name \in ScenarioNames : order_data = Contacts(name, Str(s_300))
    /\ Start(u, order_data)

ScenarioPayloads ==
    {ItemsOnly(items, total) : items \in ScenarioItems, total \in ScenarioTotals}
        \cup {Contacts(name, Str(s_300)) : name \in ScenarioNames}

NextB ==
    \/ \E u \in Users, d \in ScenarioPayloads : StartB(u, d) /\ OrdersOnly
    \/ \E t \in TaskIds : Lookup(t) /\ OrdersOnly
    \/ \E t \in TaskIds : LookupRaises(t) /\ OrdersOnly
    \/ \E t \in TaskIds : Write(t) /\ OrdersOnly
    \/ \E t \in TaskIds : WriteReturnsNone(t) /\ OrdersOnly
    \/ \E t \in TaskIds : WriteRaises(t) /\ OrdersOnly
    \/ \E t \in TaskIds : Stock(t) /\ OrdersOnly
    \/ \E t \in TaskIds : StockRaises(t) /\ OrdersOnly
    \/ \E d \in TickSteps : Tick(d) /\ OrdersOnly

SpecB == Init /\ [][NextB]_vars

\* the stock after every line item of `items` has been taken once
RECURSIVE stock_after(_, _)
stock_after(st, items) ==
    IF items = <<>> THEN st
    ELSE stock_after(update_product_stock(st, Head(items).name, Head(items).quantity),
                     Tail(items))

\* C11: scenario B.  The first call (line items only) returns 'missing'; the
\* second (contact fields) passes validation and does not raise before the
\* write; the write inserts the only OrderRecord, with the line items of the
\* first payload; when the call succeeds the stock of each ordered product has
\* gone down by its quantity once.
C11_ScenarioB ==
    [][/\ \A u \in Users, d \in ScenarioPayloads :
             StartB(u, d) => ((tasks' = tasks) <=> calls = 0)
       /\ \A t \in TaskIds :
             /\ ~RaisesKeyError(t)
             /\ Write(t) =>
                   /\ orders = <<>>
                   /\ Len(orders') = 1
                   /\ orders'[1].products = user_pending_data[tasks[t].user]["products"]
                   /\ orders'[1].products.items \in ScenarioItems
             /\ Succeeds(t) =>
                   /\ Len(orders') = 1
                   /\ stock' = stock_after([p \in Products |-> InitStock],
                                           orders'[1].products.items)]_vars

\* C12: after a finalization in which a persistence step failed, the store
\* does not hold the OrderRecord of that finalization with the stock of a line
\* item of it not taken: when a stock call raises, the record the call wrote
\* is not in the store.
C12_NoPartialCommit ==
    [][\A t \in TaskIds :
          StockRaises(t) =>
              \/ tasks[t].res_id \notin 1..Len(orders')
              \/ orders'[tasks[t].res_id] # tasks[t].payload]_vars

(***************************************************************************)
(* Generation gateway: app/clients/gemini.py, ask_gemini_with_history.     *)
(* gem holds the locals of one call: current_retry, current_backoff, the   *)
(* number of posts made (attempts), the sleeps taken, the remote outcomes  *)
(* received (seen) and the value returned.  pc is "post" while the POST is *)
(* awaited, "sleep" during asyncio.sleep, "returned" after a return and    *)
(* "raised" when an exception has left the call.                           *)
(***************************************************************************)
MAX_RETRIES == 3
INITIAL_BACKOFF_SECONDS == 2
BACKOFF_FACTOR == 2

s_hola == <<"h","o","l","a">>
s_STOP == <<"S","T","O","P">>
s_MAX_TOKENS == <<"M","A","X","_","T","O","K","E","N","S">>
s_SAFETY == <<"S","A","F","E","T","Y">>

\* a dict, as opposed to None, a str, a number or a list
is_dict(v) == "t" \notin DOMAIN v

\* the exception that leaves an except clause
TypeError == [t |-> "TypeError"]

\* e.response.json() raises json.JSONDecodeError
NotJSON == [t |-> "JSONDecodeError"]

\* e.response.text
ResponseText(id) == [t |-> "response.text", of |-> id]

\* bodies of an HTTP error response: the text, and what .json() gives
ErrorBodies ==
    { [text |-> ResponseText("html"), json |-> NotJSON],
      [text |-> ResponseText("gemini"), json |-> [error |-> [message |-> Str(s_hola)]]],
      [text |-> ResponseText("code"), json |-> [error |-> [code |-> Num(5)]]],
      [text |-> ResponseText("detail"), json |-> [detail |-> Str(s_hola)]],
      [text |-> ResponseText("null"), json |-> [error |-> None]] }

\* key in container, for a dict, a list, None or a number: "True", "False",
\* or "TypeError" when the container is not iterable
py_in(key, container) ==
    IF is_dict(container)
    THEN IF key \in DOMAIN container THEN "True" ELSE "False"
    ELSE IF container.t = "list"
         THEN IF \E i \in 1..Len(container.items) : container.items[i] = key
              THEN "True" ELSE "False"
         ELSE "TypeError"

\* error_message_detail of the HTTPStatusError clause, or the TypeError that
\* the test of error_payload raises
error_message_detail(body) ==
    IF body.json = NotJSON THEN body.text
    ELSE IF py_in("error", body.json) = "TypeError" THEN TypeError
    ELSE IF py_in("error", body.json) = "False" THEN body.text
    ELSE LET has_message == py_in("message", body.json["error"])
         IN  IF has_message = "TypeError" THEN TypeError
             ELSE IF has_message = "True" THEN body.json["error"]["message"]
             ELSE body.text

\* the strings ask_gemini_with_history returns besides the model's text
Msg(template, detail) == [t |-> "msg", template |-> template, detail |-> detail]

\* partial_text + f" (Advertencia: Generacion con finalizacion '{finish_reason}')"
Annotated(partial_text, finish_reason) ==
    [t |-> "annotated", text |-> partial_text, finish_reason |-> finish_reason]

Part(text) == [text |-> text]

Candidate(finishReason, parts) ==
    [finishReason |-> finishReason, content |-> [parts |-> List(parts)]]

\* response.json() of an HTTP 200 answer
ResponseData ==
    { EmptyDict,
      [candidates |-> List(<<>>)],
      [candidates |-> List(<<None>>)],
      [candidates |-> List(<<[content |-> [parts |-> List(<<Part(Str(s_hola))>>)]]>>)],
      [candidates |-> List(<<[finishReason |-> Str(s_SAFETY)]>>)] }
    \cup { [candidates |-> List(<<Candidate(Str(fr), parts)>>)] :
              fr \in {s_STOP, s_MAX_TOKENS, s_SAFETY},
              parts \in {<<>>, <<Part(Str(s_hola))>>, <<Part(Str(<<" ">>))>>,
                         <<Part(Str(<<>>))>>} }

\* lines 101-128: the value returned for an HTTP 200 answer with a JSON body
text_of_response(response_data) ==
    IF "candidates" \in DOMAIN response_data /\ Truthy(response_data["candidates"])
    THEN LET candidate == response_data["candidates"].items[1]
         IN  IF ~is_dict(candidate) THEN Msg("INTERNAL", None)
             ELSE
             LET finish_reason == dict_get(candidate, "finishReason", None)
                 has_parts == /\ "content" \in DOMAIN candidate
                              /\ "parts" \in DOMAIN candidate["content"]
                              /\ Truthy(candidate["content"]["parts"])
                 text == dict_get(candidate["content"]["parts"].items[1], "text", Str(<<>>))
             IN  IF finish_reason \notin {None, Str(s_STOP), Str(s_MAX_TOKENS)}
                 THEN IF has_parts /\ Truthy(text)
                      THEN Annotated(text, finish_reason)
                      ELSE Msg("RESPONSE_ISSUE", finish_reason)
                 ELSE IF has_parts
                      THEN IF strip(text.s) = <<>> THEN Msg("NO_TEXT", None) ELSE text
                      ELSE Msg("UNEXPECTED_RESPONSE", None)
    ELSE Msg("UNEXPECTED_RESPONSE", None)

HttpErrorStatuses == {429, 503, 400, 500}

\* what one POST can end with
Outcomes ==
    { [kind |-> "http_error", status |-> st, body |-> b] :
         st \in HttpErrorStatuses, b \in ErrorBodies }
    \cup { [kind |-> "ok", data |-> d] : d \in ResponseData }
    \cup { [kind |-> "ok_not_json"], [kind |-> "request_error"] }

\* current_backoff *= BACKOFF_FACTOR, with the backoff added instead
next_backoff_added(current_backoff) == current_backoff + BACKOFF_FACTOR

\* current_backoff *= BACKOFF_FACTOR
next_backoff(current_backoff) == current_backoff * BACKOFF_FACTOR

\* the call begins: lines 80-89, the first POST is awaited
GeminiCall ==
    /\ gem.pc = "idle"
    /\ gem' = [IdleGem EXCEPT !.pc = "post",
                              !.current_retry = 0,
                              !.current_backoff = INITIAL_BACKOFF_SECONDS,
                              !.attempts = 1]
    /\ UNCHANGED <<order_vars, extractor_vars, handler_vars>>

GeminiReturn(g, value) == [g EXCEPT !.pc = "returned", !.result = value]

\* await asyncio.sleep(current_backoff)
GeminiSleep(g) == [g EXCEPT !.pc = "sleep", !.sleeps = Append(@, g.current_backoff)]

\* the POST ends with outcome o: lines 89-174 up to a return or the sleep
GeminiResponse(o) ==
    /\ gem.pc = "post"
    /\ LET g == [gem EXCEPT !.seen = Append(@, o)]
           can_retry == gem.current_retry < MAX_RETRIES
       IN  gem' =
             CASE o.kind = "ok" -> GeminiReturn(g, text_of_response(o.data))
               [] o.kind = "ok_not_json" -> GeminiReturn(g, Msg("BAD_FORMAT", None))
               [] o.kind \in {"request_error", "timeout"} ->
                    IF can_retry THEN GeminiSleep(g)
                    ELSE GeminiReturn(g, Msg("CONNECTION", None))
               [] o.kind = "http_error" ->
                    LET detail == error_message_detail(o.body)
                    IN  IF detail = TypeError THEN [g EXCEPT !.pc = "raised"]
                        ELSE IF o.status = 503 \/ o.status = 429
                        THEN IF can_retry THEN GeminiSleep(g)
                             ELSE GeminiReturn(g, Msg("HIGH_DEMAND", detail))
                        ELSE IF o.status = 400
                        THEN GeminiReturn(g, Msg("BAD_REQUEST", detail))
                        ELSE GeminiReturn(g, Msg("COMMUNICATION", <<o.status, detail>>))
    /\ UNCHANGED <<order_vars, extractor_vars, handler_vars>>

\* the sleep ends and the retry is not counted
GeminiWakeUncounted ==
    /\ gem.pc = "sleep"
    /\ gem' = [gem EXCEPT !.pc = "post", !.attempts = @ + 1,
                          !.current_backoff = next_backoff(@)]
    /\ UNCHANGED <<order_vars, extractor_vars, handler_vars>>

\* the sleep ends: lines 145-147 (162-164), the loop test, the next POST
GeminiWake ==
    /\ gem.pc = "sleep"
    /\ LET g == [gem EXCEPT !.current_retry = @ + 1,
                            !.current_backoff = next_backoff(@)]
       IN  gem' = IF g.current_retry <= MAX_RETRIES
                  THEN [g EXCEPT !.pc = "post", !.attempts = @ + 1]
                  ELSE GeminiReturn(g, Msg("NOT_RESPONDING", None))
    /\ UNCHANGED <<order_vars, extractor_vars, handler_vars>>

NextGemini ==
    \/ GeminiCall
    \/ \E o \in Outcomes : GeminiResponse(o)
    \/ GeminiWake

SpecGemini == Init /\ [][NextGemini]_vars

\* HTTP 429, HTTP 503 or a network-level error
Transient(o) ==
    \/ o.kind = "request_error"
    \/ o.kind = "http_error" /\ o.status \in {429, 503}

\* an HTTP 200 answer whose first candidate stopped normally with a text
Success(text) ==
    [kind |-> "ok", data |-> [candidates |-> List(<<Candidate(Str(s_STOP), <<Part(text)>>)>>)]]

\* the value returned when the retries are used up
ExhaustedTemplates == {"HIGH_DEMAND", "CONNECTION", "NOT_RESPONDING"}

\* C13: retry bound.  After N <= 3 transient failures a successful attempt
\* makes the call return the success text; a transient failure of one of the
\* first three attempts leads to a sleep and a further attempt; a transient
\* failure of the fourth attempt makes the call return a classified error
\* value; there is no fifth attempt and nothing is raised.
C13_RetryBound ==
    [][/\ \A o \in Outcomes :
             GeminiResponse(o) =>
                 /\ gem.attempts <= MAX_RETRIES + 1
                 /\ o = Success(Str(s_hola)) =>
                       gem'.pc = "returned" /\ gem'.result = Str(s_hola)
                 /\ Transient(o) =>
                       IF gem.attempts <= MAX_RETRIES
                       THEN gem'.pc = "sleep"
                       ELSE /\ gem'.pc = "returned"
                            /\ gem'.result.t = "msg"
                            /\ gem'.result.template \in ExhaustedTemplates
       /\ GeminiWake =>
             /\ gem'.pc = "post"
             /\ gem'.attempts = gem.attempts + 1
             /\ gem'.attempts <= MAX_RETRIES + 1]_vars

\* C14: an HTTP error status other than 429 and 503 is not retried: the call
\* returns at that attempt, with no sleep and no further attempt, and the
\* value returned for HTTP 400 is neither the overload-exhausted nor the
\* network-exhausted value.
C14_NonTransientNotRetried ==
    [][\A o \in Outcomes :
          (GeminiResponse(o) /\ o.kind = "http_error" /\ o.status \notin {429, 503}) =>
              /\ gem'.pc = "returned"
              /\ gem'.sleeps = gem.sleeps
              /\ gem'.attempts = gem.attempts
              /\ gem'.result.t = "msg"
              /\ gem'.result.template \notin ExhaustedTemplates
              /\ (o.status = 400 <=> gem'.result.template = "BAD_REQUEST")]_vars

\* C15: ask_gemini_with_history never raises to its caller.
C15_NeverRaises == gem.pc # "raised"

\* two to the power k
RECURSIVE Pow2(_)
Pow2(k) == IF k = 0 THEN 1 ELSE 2 * Pow2(k - 1)

\* C16: exponential backoff.  The sleep before the k-th retry lasts 2, 4, 8
\* seconds for k = 1, 2, 3; there are at most three sleeps, none before the
\* first attempt and none after the last attempt: a call that is over has
\* slept once less than it has posted.
C16_ExponentialBackoff ==
    /\ \A k \in 1..Len(gem.sleeps) :
          /\ k <= 3
          /\ gem.sleeps[k] = Pow2(k)
          /\ gem.sleeps[k] = INITIAL_BACKOFF_SECONDS * Pow2(k - 1)
    /\ gem.pc = "sleep" => Len(gem.sleeps) = gem.attempts
    /\ gem.pc \in {"post", "returned", "raised"} => Len(gem.sleeps) = gem.attempts - 1
    /\ gem.pc = "idle" => gem.sleeps = <<>>

\* a call that ended after four attempts has slept 2, 4 and 8 seconds
C16_Witness ==
    /\ gem.pc = "returned"
    /\ gem.attempts = 4
    /\ gem.sleeps = <<2, 4, 8>>

\* C17: when the first candidate of an HTTP 200 answer has the finish reason
\* MAX_TOKENS (truncated) or SAFETY (filtered) and a non-empty partial text,
\* the call returns that text with the finish reason appended.
C17_PartialTextAnnotated ==
    [][\A o \in Outcomes :
          (/\ GeminiResponse(o)
           /\ o.kind = "ok"
           /\ \E fr \in {s_MAX_TOKENS, s_SAFETY}, text \in {Str(s_hola), Str(<<" ">>)} :
                 o.data = [candidates |-> List(<<Candidate(Str(fr), <<Part(text)>>)>>)])
          => LET candidate == o.data["candidates"].items[1]
             IN  gem'.result = Annotated(candidate["content"]["parts"].items[1]["text"],
                                         candidate["finishReason"])]_vars

(***************************************************************************)
(* Payload extractor: app/utils/extractors.py, extract_order_data.         *)
(* A text is a sequence of tokens, each a run of characters: punctuation   *)
(* of JSON, a JSON string literal, a JSON number, null, a word of the      *)
(* conversation, white space.  rfind, slicing, strip and json.loads are    *)
(* computed on the tokens.                                                 *)
(***************************************************************************)
Tok(k, v) == [k |-> k, v |-> v]
P(v) == Tok("punct", v)
S(v) == Tok("string", v)
N(v) == Tok("number", v)
W(v) == Tok("word", v)
WS(v) == Tok("space", v)
null == Tok("null", "null")

\* the marker '{"order_details":'
Marker == <<P("{"), S("order_details"), P(":")>>

\* text.rfind(pattern) + 1: the last position where pattern occurs, 0 if none
rfind(text, pattern) ==
    LET at == {i \in 1..(Len(text) - Len(pattern) + 1) :
                  SubSeq(text, i, i + Len(pattern) - 1) = pattern}
    IN  IF at = {} THEN 0 ELSE CHOOSE i \in at : \A j \in at : j <= i

RECURSIVE lstrip_tokens(_)
lstrip_tokens(text) ==
    IF text # <<>> /\ Head(text).k = "space" THEN lstrip_tokens(Tail(text)) ELSE text

RECURSIVE rstrip_tokens(_)
rstrip_tokens(text) ==
    IF text # <<>> /\ text[Len(text)].k = "space"
    THEN rstrip_tokens(SubSeq(text, 1, Len(text) - 1))
    ELSE text

\* text.strip()
strip_tokens(text) == rstrip_tokens(lstrip_tokens(text))

\* the str a JSON string literal stands for
string_value(v) ==
    CASE v = "Ana" -> Str(s_Ana)
      [] v = "Calle 1" -> Str(s_Calle1)
      [] v = "300" -> Str(s_300)
      [] v = "cash" -> Str(s_cash)
      [] OTHER -> Str(<<v>>)

\* the number a JSON number stands for
number_value(v) ==
    CASE v = "2" -> Num(2) [] v = "10" -> Num(10) [] v = "25" -> Num(25) [] OTHER -> Num(0)

\* the bare words json.loads accepts besides null: true and false, and, outside
\* the JSON grammar, NaN and the infinities
Literals == {"true", "false", "NaN", "Infinity", "-Infinity"}

literal_value(v) == [t |-> "literal", v |-> v]

\* json.loads raises
Invalid == [ok |-> FALSE]

Parsed(value, rest) == [ok |-> TRUE, value |-> value, rest |-> rest]

\* json.loads, by recursive descent: a value, the members of an object after
\* "{" and the elements of an array after "["
RECURSIVE parse_value(_), parse_members(_, _), parse_elements(_, _)
parse_value(text) ==
    LET ts == lstrip_tokens(text)
    IN  IF ts = <<>> THEN Invalid
        ELSE CASE Head(ts) = P("{") ->
                    IF lstrip_tokens(Tail(ts)) # <<>> /\ Head(lstrip_tokens(Tail(ts))) = P("}")
                    THEN Parsed(EmptyDict, Tail(lstrip_tokens(Tail(ts))))
                    ELSE parse_members(Tail(ts), EmptyDict)
               [] Head(ts) = P("[") ->
                    IF lstrip_tokens(Tail(ts)) # <<>> /\ Head(lstrip_tokens(Tail(ts))) = P("]")
                    THEN Parsed(List(<<>>), Tail(lstrip_tokens(Tail(ts))))
                    ELSE parse_elements(Tail(ts), <<>>)
               [] Head(ts).k = "string" -> Parsed(string_value(Head(ts).v), Tail(ts))
               [] Head(ts).k = "number" -> Parsed(number_value(Head(ts).v), Tail(ts))
               [] Head(ts).k = "null" -> Parsed(None, Tail(ts))
               [] Head(ts).k = "word" /\ Head(ts).v \in Literals ->
                    Parsed(literal_value(Head(ts).v), Tail(ts))
               [] OTHER -> Invalid

parse_members(text, acc) ==
    LET ts == lstrip_tokens(text)
    IN  IF ts = <<>> \/ Head(ts).k # "string" THEN Invalid
        ELSE LET colon == lstrip_tokens(Tail(ts))
             IN  IF colon = <<>> \/ Head(colon) # P(":") THEN Invalid
                 ELSE LET member == parse_value(Tail(colon))
                      IN  IF ~member.ok THEN Invalid
                          ELSE LET obj == dict_set(acc, Head(ts).v, member.value)
                                   after == lstrip_tokens(member.rest)
                               IN  IF after = <<>> THEN Invalid
                                   ELSE IF Head(after) = P("}") THEN Parsed(obj, Tail(after))
                                   ELSE IF Head(after) = P(",")
                                        THEN parse_members(Tail(after), obj)
                                   ELSE Invalid

parse_elements(text, acc) ==
    LET element == parse_value(text)
    IN  IF ~element.ok THEN Invalid
        ELSE LET items == Append(acc, element.value)
                 after == lstrip_tokens(element.rest)
             IN  IF after = <<>> THEN Invalid
                 ELSE IF Head(after) = P("]") THEN Parsed(List(items), Tail(after))
                 ELSE IF Head(after) = P(",") THEN parse_elements(Tail(after), items)
                 ELSE Invalid

\* json.loads(js): one value and nothing but white space after it
json_loads(js) ==
    LET r == parse_value(js)
    IN  IF r.ok /\ lstrip_tokens(r.rest) = <<>> THEN r ELSE Invalid

\* extract_order_data with the text before the marker kept on a parse failure
extract_order_data_cut(text) ==
    LET idx == rfind(text, Marker)
    IN  IF idx = 0 THEN <<None, text>>
        ELSE LET parsed == json_loads(SubSeq(text, idx, rfind(text, <<P("}")>>)))
             IN  IF parsed.ok
                 THEN <<dict_get(parsed.value, "order_details", None),
                        strip_tokens(SubSeq(text, 1, idx - 1))>>
                 ELSE <<None, strip_tokens(SubSeq(text, 1, idx - 1))>>

\* extract_order_data(text): <<order_data, text without the JSON>>
extract_order_data(text) ==
    LET idx == rfind(text, Marker)
    IN  IF idx = 0 THEN <<None, text>>
        ELSE LET end == rfind(text, <<P("}")>>)
                 js == SubSeq(text, idx, end)
                 parsed == json_loads(js)
             IN  IF parsed.ok
                 THEN <<dict_get(parsed.value, "order_details", None),
                        strip_tokens(SubSeq(text, 1, idx - 1))>>
                 ELSE <<None, text>>

\* '"key":value' as tokens
Member(key, value) == <<S(key), P(":")>> \o value

Block(inner) == Marker \o inner \o <<P("}")>>

block_name == Block(<<P("{")>> \o Member("name", <<S("Ana")>>) \o <<P("}")>>)

block_contacts ==
    Block(<<P("{")>> \o Member("name", <<S("Ana")>>) \o <<P(",")>>
              \o Member("address", <<S("Calle 1")>>) \o <<P(",")>>
              \o Member("phone", <<S("300")>>) \o <<P(",")>>
              \o Member("payment_method", <<S("cash")>>) \o <<P(",")>>
              \o Member("products", <<null>>) \o <<P("}")>>)

block_items ==
    Block(<<WS(" "), P("{")>> \o Member("name", <<null>>) \o <<P(","), WS(" ")>>
              \o Member("products",
                        <<P("["), P("{")>> \o Member("name", <<S("Tequila")>>) \o <<P(",")>>
                           \o Member("quantity", <<N("2")>>) \o <<P(",")>>
                           \o Member("price", <<N("10")>>) \o <<P("}"), P("]")>>)
              \o <<P("}"), WS("\n")>>)

\* the blocks that are valid JSON, with the object they hold under order_details
WellformedBlocks ==
    { [tokens |-> block_name, payload |-> [name |-> Str(s_Ana)]],
      [tokens |-> block_contacts,
       payload |-> [name |-> Str(s_Ana), address |-> Str(s_Calle1), phone |-> Str(s_300),
                    payment_method |-> Str(s_cash), products |-> None]],
      [tokens |-> block_items,
       payload |-> [name |-> None,
                    products |-> List(<<[name |-> Str(<<"Tequila">>), quantity |-> Num(2),
                                         price |-> Num(10)]>>)]],
      [tokens |-> Block(<<null>>), payload |-> None],
      [tokens |-> Block(<<P("{"), P("}")>>), payload |-> EmptyDict] }

block_NaN ==
    Block(<<P("{")>> \o Member("name", <<S("Ana")>>) \o <<P(",")>>
              \o Member("total", <<W("NaN")>>) \o <<P("}")>>)

\* blocks that are not valid JSON only because they hold NaN or an infinity,
\* with the object json.loads builds under order_details
NonstandardBlocks ==
    { [tokens |-> block_NaN,
       payload |-> [name |-> Str(s_Ana), total |-> literal_value("NaN")]],
      [tokens |-> Block(<<W("-Infinity")>>), payload |-> literal_value("-Infinity")] }

\* blocks that are not valid JSON from the marker to the last "}": no closing
\* brace, no value, a trailing comma, no colon, a bare word, the marker alone,
\* an unclosed array, a valid block followed by text with a "}"
MalformedBlocks ==
    { Marker \o <<P("{")>> \o Member("name", <<S("Ana")>>) \o <<P("}")>>,
      Block(<<P("{")>> \o Member("name", <<>>) \o <<P("}")>>),
      Block(<<P("{")>> \o Member("name", <<S("Ana")>>) \o <<P(","), P("}")>>),
      Block(<<P("{"), S("name"), S("Ana"), P("}")>>),
      Block(<<P("{")>> \o Member("name", <<W("Ana")>>) \o <<P("}")>>),
      Marker,
      Block(<<P("{")>> \o Member("products", <<P("["), S("Tequila")>>) \o <<P("}")>>),
      block_name \o <<WS(" "), W(":-"), P("}")>> }

\* a Markdown code fence, the three backquotes the prompt wraps the block in
Fence == W("fence")

\* the conversational text before the last marker
Prefixes ==
    { <<>>,
      <<W("Hola")>>,
      <<WS(" "), W("Hola"), WS("\n")>>,
      <<W("Listo"), WS("\n"), Fence, W("json"), WS("\n")>>,
      <<W("A"), WS(" ")>> \o block_contacts \o <<WS(" "), W("B"), WS(" ")>> }

\* the text after the block; none of it holds a "}"
Suffixes == { <<>>, <<WS("\n")>>, <<WS("\n"), Fence>>, <<WS(" "), W("gracias")>> }

\* the replies handed to extract_order_data
Replies ==
    { [text |-> p \o b.tokens \o a, trailer |-> "wellformed", nonstandard |-> FALSE,
       before |-> p, after |-> a, payload |-> b.payload]
        : p \in Prefixes, b \in WellformedBlocks, a \in Suffixes }
    \cup { [text |-> p \o b \o a, trailer |-> "malformed", nonstandard |-> FALSE,
            before |-> p, after |-> a, payload |-> None]
             : p \in Prefixes, b \in MalformedBlocks, a \in Suffixes }
    \cup { [text |-> p \o b.tokens \o a, trailer |-> "malformed", nonstandard |-> TRUE,
            before |-> p, after |-> a, payload |-> b.payload]
             : p \in Prefixes, b \in NonstandardBlocks, a \in Suffixes }
    \cup { [text |-> p \o a, trailer |-> "none", nonstandard |-> FALSE,
            before |-> p, after |-> a, payload |-> None]
             : p \in {<<W("Hola")>>, <<WS(" ")>>}, a \in Suffixes }

\* extract_order_data(reply) is called and returns
Extract(reply) ==
    /\ ext.pc = "idle"
    /\ LET r == extract_order_data(reply.text)
       IN  ext' = [pc |-> "done", reply |-> reply, order_data |-> r[1], clean |-> r[2]]
    /\ UNCHANGED <<resolved, order_vars, gateway_vars, handler_vars>>

NextExtract == \E reply \in Replies : Extract(reply)

SpecExtract == Init /\ [][NextExtract]_vars

C19_CleanTextKeepsConversation ==
    (ext.pc = "done" /\ ext.reply.trailer = "wellformed")
        => /\ ext.order_data = ext.reply.payload
           /\ ext.clean = strip_tokens(ext.reply.before \o ext.reply.after)

(***************************************************************************)
(* app/services/conversation.py, handle_user_message.  One action is the   *)
(* completion of an awaited call and the code up to the next await.        *)
(* send_whatsapp_message (app/clients/whatsapp.py) is a plain function: it *)
(* posts the message inside the calling step and returns None, so the      *)
(* `await` applied to its result raises TypeError after the message left.  *)
(* The `time` key of a history turn is left out.                           *)
(***************************************************************************)
\* the text of the incoming message
raw_text == <<W("Hola")>>

\* the turn appended to the history for the reply
model_turn_trimmed(clean) == [role |-> "model", text |-> strip_tokens(clean)]

model_turn(clean) == [role |-> "model", text |-> clean]

\* user_histories.setdefault(from_number, []).append(turn),
\* user_histories[from_number].append(turn)
history_append(histories, u, turn) ==
    dict_set(histories, u, Append(dict_get(histories, u, <<>>), turn))

\* send_whatsapp_message(to, body): the post succeeds, or fails and is only logged
Deliver(box, to, body, sent) ==
    IF sent THEN Append(box, [to |-> to, body |-> body]) ELSE box

ReplyBody(text) == [template |-> "reply", text |-> text]

block_order ==
    Block(<<P("{")>> \o Member("name", <<S("Ana")>>) \o <<P(",")>>
              \o Member("address", <<S("Calle 1")>>) \o <<P(",")>>
              \o Member("phone", <<S("300")>>) \o <<P(",")>>
              \o Member("payment_method", <<S("cash")>>) \o <<P(",")>>
              \o Member("products", <<P("["), P("]")>>) \o <<P(",")>>
              \o Member("total", <<N("25")>>) \o <<P("}")>>)

Reply(before, block, after, trailer, nonstandard) ==
    [text |-> before \o block \o after, trailer |-> trailer, nonstandard |-> nonstandard,
     before |-> before, after |-> after, payload |-> None]

\* the replies of the generation service to the general prompt
HandlerReplies ==
    { Reply(<<W("Hola")>>,
            Marker \o <<P("{")>> \o Member("name", <<S("Ana")>>) \o <<P("}")>>,
            <<WS("\n")>>, "malformed", FALSE),
      Reply(<<WS(" "), W("Hola"), WS("\n")>>,
            Block(<<P("{")>> \o Member("name", <<S("Ana")>>) \o <<P(","), P("}")>>),
            <<>>, "malformed", FALSE),
      Reply(<<W("Hola")>>, block_NaN, <<>>, "malformed", TRUE),
      Reply(<<W("Hola")>>, <<>>, <<>>, "none", FALSE),
      Reply(<<W("Hola")>>, block_name, <<>>, "wellformed", FALSE),
      Reply(<<W("Hola")>>, block_contacts, <<>>, "wellformed", FALSE),
      Reply(<<W("Hola"), WS("\n")>>, block_order, <<>>, "wellformed", FALSE),
      Reply(<<>>, Block(<<P("{"), P("}")>>), <<>>, "wellformed", FALSE) }

\* the task process_order(from_number, order_data) runs in
NewTask ==
    CHOOSE x \in TaskIds : tasks[x].pc = "idle" /\ \A y \in TaskIds : tasks[y].pc = "idle" => x <= y

\* from the test of order_data to the first await of process_order, or, when
\* process_order returns 'missing' at once, to the end of the handler
OrderDecision(h, order_data, box, sent) ==
    LET u == handlers[h].user
    IN  IF order_data = None \/ order_data = EmptyDict
        THEN /\ handlers' = [handlers EXCEPT ![h].pc = "done"]
             /\ outbox' = box
             /\ UNCHANGED order_vars
        ELSE /\ Start(u, order_data)
             /\ LET faltantes == get_missing_fields(user_pending_data'[u])
                IN  IF faltantes # <<>>
                    THEN /\ outbox' = Deliver(box, u, [template |-> "missing",
                                                       fields |-> faltantes], sent)
                         /\ handlers' = [handlers EXCEPT ![h].pc = "done"]
                    ELSE /\ outbox' = box
                         /\ handlers' = [handlers EXCEPT ![h].pc = "order",
                                                          ![h].task = NewTask]

\* the event is parsed, the user turn appended, save_message_to_supabase called
HReceive(h, u) ==
    /\ handlers[h].pc = "idle"
    /\ user_histories' = history_append(user_histories, u, [role |-> "user", text |-> raw_text])
    /\ handlers' = [handlers EXCEPT ![h].pc = "save_user", ![h].user = u]
    /\ UNCHANGED <<outbox, order_vars, gateway_vars, extractor_vars>>

\* the save returns or raises; get_all_products is called
HSaveUser(h) ==
    /\ handlers[h].pc = "save_user"
    /\ handlers' = [handlers EXCEPT ![h].pc = "catalog"]
    /\ UNCHANGED <<user_histories, outbox, order_vars, gateway_vars, extractor_vars>>

CatalogOutcomes == {"products", "empty", "raises"}

\* get_all_products returns: with no product the apology is sent and the
\* handler ends; otherwise handle_image_request_logic asks the generation service
HCatalog(h, outcome, sent) ==
    /\ handlers[h].pc = "catalog"
    /\ handlers' = [handlers EXCEPT ![h].pc = IF outcome = "products" THEN "image" ELSE "done"]
    /\ outbox' = IF outcome = "empty"
                 THEN Deliver(outbox, handlers[h].user, [template |-> "catalog"], sent)
                 ELSE outbox
    /\ UNCHANGED <<user_histories, order_vars, gateway_vars, extractor_vars>>

\* handle_image_request_logic gets its answer: no image request, or one message
\* is sent and the TypeError of its await makes it return False; the general
\* prompt is built and the generation service is asked
HImage(h, message) ==
    /\ handlers[h].pc = "image"
    /\ handlers' = [handlers EXCEPT ![h].pc = "gemini"]
    /\ outbox' = Deliver(outbox, handlers[h].user, [template |-> "image"], message)
    /\ UNCHANGED <<user_histories, order_vars, gateway_vars, extractor_vars>>

\* ask_gemini_with_history returns the reply: extraction, the model turn,
\* and the call of save_message_to_supabase; with a blank clean text the
\* handler goes on to the order data
HGemini(h, reply, sent) ==
    /\ handlers[h].pc = "gemini"
    /\ LET r == extract_order_data(reply.text)
           order_data == r[1]
           clean_text_response == r[2]
       IN  IF strip_tokens(clean_text_response) # <<>>
           THEN /\ user_histories' = history_append(user_histories, handlers[h].user,
                                                    model_turn(clean_text_response))
                /\ handlers' = [handlers EXCEPT ![h].pc = "save_model",
                                                 ![h].reply = reply,
                                                 ![h].order_data = order_data,
                                                 ![h].clean = clean_text_response]
                /\ UNCHANGED <<outbox, order_vars>>
           ELSE /\ user_histories' = user_histories
                /\ OrderDecision(h, order_data, outbox, sent)
    /\ UNCHANGED <<gateway_vars, extractor_vars>>

\* ask_gemini_with_history raises: the outer except ends the handler
HGeminiRaises(h) ==
    /\ handlers[h].pc = "gemini"
    /\ handlers' = [handlers EXCEPT ![h].pc = "done"]
    /\ UNCHANGED <<user_histories, outbox, order_vars, gateway_vars, extractor_vars>>

\* the save of the model turn returns or raises; the clean text is sent; then
\* the order data is processed
HSaveModel(h, sent, sent_status) ==
    /\ handlers[h].pc = "save_model"
    /\ OrderDecision(h, handlers[h].order_data,
                     Deliver(outbox, handlers[h].user, ReplyBody(handlers[h].clean), sent),
                     sent_status)
    /\ UNCHANGED <<user_histories, gateway_vars, extractor_vars>>

\* a step of the process_order call of the handler; when the call returns
\* 'created' or 'updated' the status message is sent, when it returns
\* 'error' or raises nothing is sent
HOrder(h, sent) ==
    /\ handlers[h].pc = "order"
    /\ LET t == handlers[h].task
       IN  \/ /\ \/ Lookup(t)
                 \/ LookupRaises(t)
                 \/ WriteReturnsNone(t)
                 \/ WriteRaises(t)
                 \/ StockRaises(t)
              /\ outbox' = outbox
              /\ handlers' = [handlers EXCEPT
                                 ![h].pc = IF tasks'[t].pc = "idle" THEN "done" ELSE "order"]
           \/ /\ \/ Write(t)
                 \/ Stock(t)
              /\ IF tasks'[t].pc = "idle"
                 THEN /\ outbox' = Deliver(outbox, handlers[h].user,
                                           [template |-> IF tasks[t].existing # 0
                                                         THEN "updated" ELSE "created"],
                                           sent)
                      /\ handlers' = [handlers EXCEPT ![h].pc = "done"]
                 ELSE /\ outbox' = outbox
                      /\ handlers' = handlers
    /\ UNCHANGED <<user_histories, gateway_vars, extractor_vars>>

NextHandler ==
    \/ \E h \in HandlerIds, u \in Users : HReceive(h, u)
    \/ \E h \in HandlerIds : HSaveUser(h)
    \/ \E h \in HandlerIds, outcome \in CatalogOutcomes, sent \in BOOLEAN :
          HCatalog(h, outcome, sent)
    \/ \E h \in HandlerIds, message \in BOOLEAN : HImage(h, message)
    \/ \E h \in HandlerIds, reply \in HandlerReplies, sent \in BOOLEAN : HGemini(h, reply, sent)
    \/ \E h \in HandlerIds : HGeminiRaises(h)
    \/ \E h \in HandlerIds, sent \in BOOLEAN, sent_status \in BOOLEAN :
          HSaveModel(h, sent, sent_status)
    \/ \E h \in HandlerIds, sent \in BOOLEAN : HOrder(h, sent)

SpecHandler == Init /\ [][NextHandler]_vars

\* what Scenario C claims of a step of handler h on the reply it took: the
\* step that receives the reply stores the full text as the model turn, keeps
\* no order data and starts nothing; the step that sends it delivers the full
\* text or nothing and ends the handler; neither touches process_order's state
ScenarioC(h) ==
    LET u == handlers[h].user
        reply == handlers'[h].reply
    IN  /\ handlers[h].pc = "gemini" =>
              /\ handlers'[h].order_data = None
              /\ handlers'[h].pc = "save_model"
              /\ user_histories' = [user_histories EXCEPT
                                       ![u] = Append(@, [role |-> "model", text |-> reply.text])]
              /\ outbox' = outbox
        /\ handlers[h].pc = "save_model" =>
              /\ handlers'[h].pc = "done"
              /\ user_histories' = user_histories
              /\ outbox' \in {outbox, Append(outbox, [to |-> u, body |-> ReplyBody(reply.text)])}
        /\ UNCHANGED order_vars

\* handler h takes a step on a reply with a malformed trailer
StepsOnMalformed(h) ==
    /\ handlers[h].pc \in {"gemini", "save_model"}
    /\ handlers'[h] # handlers[h]
    /\ handlers'[h].reply # None
    /\ handlers'[h].reply.trailer = "malformed"

InFlight(t) == tasks[t].pc # "idle"

\* C21: per-user mutual exclusion.  Two process_order calls of the same user
\* are never in flight together, so their accesses to the user's PendingOrder
\* do not interleave and no PendingOrder is finalized by two calls.
C21_PerUserMutualExclusion ==
    \A t1 \in TaskIds, t2 \in TaskIds :
        (t1 # t2 /\ InFlight(t1) /\ InFlight(t2)) => tasks[t1].user # tasks[t2].user

\* the inbound messages numbered in the order of their receipt: message h is
\* received after every message before it
HReceiveInOrder(h, u) ==
    /\ \A k \in HandlerIds : k < h => handlers[k].pc # "idle"
    /\ HReceive(h, u)

NextSession ==
    \/ \E h \in HandlerIds, u \in Users : HReceiveInOrder(h, u)
    \/ \E h \in HandlerIds : HSaveUser(h)
    \/ \E h \in HandlerIds, outcome \in CatalogOutcomes, sent \in BOOLEAN :
          HCatalog(h, outcome, sent)
    \/ \E h \in HandlerIds, message \in BOOLEAN : HImage(h, message)
    \/ \E h \in HandlerIds, reply \in HandlerReplies, sent \in BOOLEAN : HGemini(h, reply, sent)
    \/ \E h \in HandlerIds : HGeminiRaises(h)
    \/ \E h \in HandlerIds, sent \in BOOLEAN, sent_status \in BOOLEAN :
          HSaveModel(h, sent, sent_status)
    \/ \E h \in HandlerIds, sent \in BOOLEAN : HOrder(h, sent)

SpecSession == Init /\ [][NextSession]_vars

\* handler h calls process_order in this step: its payload is merged
Merges(h) == handlers'[h] # handlers[h] /\ calls' = calls + 1

\* the payload of handler h has been merged
Merged(h) ==
    /\ handlers[h].pc \in {"order", "done"}
    /\ handlers[h].order_data # None
    /\ handlers[h].order_data # EmptyDict

\* C22: ordering within one user's session.  The user turn of a message is
\* appended behind every turn already in the session, and when the payload of
\* a message is merged, no payload of a later message of the same user has
\* been merged before it.
C22_SessionOrder ==
    [][\A h1 \in HandlerIds :
          /\ (handlers[h1].pc = "idle" /\ handlers'[h1].pc # "idle") =>
                LET u == handlers'[h1].user
                IN  user_histories'[u] =
                        Append(dict_get(user_histories, u, <<>>),
                               [role |-> "user", text |-> raw_text])
          /\ Merges(h1) =>
                \A h2 \in HandlerIds :
                    (h2 > h1 /\ handlers[h2].user = handlers[h1].user) => ~Merged(h2)]_vars

(***************************************************************************)
(* A retrying gateway call of one user beside the handler of another user. *)
(***************************************************************************)
\* a sleep that keeps the event loop for its whole duration, as time.sleep does
loop_held_by_sleeper == gem.pc = "sleep"

\* `await asyncio.sleep(current_backoff)` suspends the calling task and gives
\* the event loop back: the loop is never held during a backoff sleep
loop_held == FALSE

\* the user whose handler runs beside the retrying call, and that handler
OtherUser == "u2"
OtherHandler == CHOOSE h \in HandlerIds : \A k \in HandlerIds : h <= k

\* the ends of a POST of the retrying call: two transient failures, a
\* success, a failure that is not retried
BackoffOutcomes ==
    { o \in Outcomes :
        \/ o.kind = "request_error"
        \/ o.kind = "http_error" /\ o.status \in {503, 400} /\ o.body.json = NotJSON
        \/ o.kind = "ok" /\ o.data = EmptyDict }

\* the replies to the other user that carry no order data: the message
\* beside the retrying call is a conversational one
TextReplies == {r \in HandlerReplies : extract_order_data(r.text)[1] = None}

\* a step of handler h, taken when the event loop is free
HandlerStep(h) ==
    /\ ~loop_held
    /\ \/ HReceive(h, OtherUser)
       \/ HSaveUser(h)
       \/ \E outcome \in CatalogOutcomes, sent \in BOOLEAN : HCatalog(h, outcome, sent)
       \/ \E message \in BOOLEAN : HImage(h, message)
       \/ \E reply \in TextReplies, sent \in BOOLEAN : HGemini(h, reply, sent)
       \/ HGeminiRaises(h)
       \/ \E sent \in BOOLEAN, sent_status \in BOOLEAN : HSaveModel(h, sent, sent_status)

NextBackoff ==
    \/ GeminiCall
    \/ \E o \in BackoffOutcomes : GeminiResponse(o)
    \/ GeminiWake
    \/ HandlerStep(OtherHandler)

\* the event loop runs a task that is ready, and the calls the handler awaits
\* end; nothing is assumed about when the sleeping call wakes
SpecBackoff ==
    Init /\ [][NextBackoff]_vars /\ WF_vars(HandlerStep(OtherHandler))

SESSION_CAPACITY == 15

MaxTurns == 17

SessionUser == "u1"

Turns(role) ==
    LET session == dict_get(user_histories, SessionUser, <<>>)
    IN  Cardinality({i \in 1..Len(session) : session[i].role = role})

\* a message of the user arrives: user_histories.setdefault(u, []).append(turn)
TurnReceived ==
    /\ Turns("user") + Turns("model") < MaxTurns
    /\ user_histories' = history_append(user_histories, SessionUser,
                                        [role |-> "user", text |-> raw_text])
    /\ UNCHANGED <<outbox, handlers, order_vars, gateway_vars, extractor_vars>>

\* the reply to one of the messages arrives with a clean text that is not
\* blank: user_histories[u].append(turn)
TurnReplied ==
    /\ Turns("user") + Turns("model") < MaxTurns
    /\ Turns("model") < Turns("user")
    /\ user_histories' = history_append(user_histories, SessionUser, model_turn(<<W("Hola")>>))
    /\ UNCHANGED <<outbox, handlers, order_vars, gateway_vars, extractor_vars>>

NextTurns == TurnReceived \/ TurnReplied

SpecTurns == Init /\ [][NextTurns]_vars

\* C24: session bound.  A session never holds more than 15 turns, and a turn
\* appended to a full session pushes the oldest one out and keeps the rest in
\* order.
C24_SessionBound ==
    [][\A u \in DOMAIN user_histories' :
          /\ Len(user_histories'[u]) <= SESSION_CAPACITY
          /\ (u \in DOMAIN user_histories /\ Len(user_histories[u]) = SESSION_CAPACITY
              /\ user_histories'[u] # user_histories[u]) =>
                SubSeq(user_histories'[u], 1, SESSION_CAPACITY - 1) = Tail(user_histories[u])]_vars

(***************************************************************************)
(* handle_user_message with the gateway call it awaits: what               *)
(* ask_gemini_with_history returns is what the handler extracts from.      *)
(***************************************************************************)
\* the return values that begin with "GEMINI_API_ERROR: "
ApiErrorTemplates ==
    {"HIGH_DEMAND", "BAD_REQUEST", "COMMUNICATION", "CONNECTION", "BAD_FORMAT",
     "INTERNAL", "NOT_RESPONDING"}

\* the string ask_gemini_with_history returns, as tokens: the model's text,
\* the text with the finish-reason note, or a message made of its identifier
\* (if it has one), its sentence and the detail formatted into it
message_tokens(result) ==
    CASE result.t = "str" -> <<W(result.s)>>
      [] result.t = "annotated" ->
            <<W(result.text.s), WS(" "), W("(Advertencia:"), Tok("detail", result.finish_reason)>>
      [] result.t = "msg" ->
            (IF result.template \in ApiErrorTemplates THEN <<W("GEMINI_API_ERROR:"), WS(" ")>>
             ELSE IF result.template = "RESPONSE_ISSUE"
                  THEN <<W("GEMINI_RESPONSE_ISSUE:"), WS(" ")>>
                  ELSE <<>>)
            \o <<W(result.template)>>
            \o (IF result.detail = None THEN <<>>
                ELSE <<WS(" "), Tok("detail", result.detail)>>)

\* llm_response_text_general
GatewayReply(result) == Reply(<<>>, message_tokens(result), <<>>, "none", FALSE)

FailureHandler == CHOOSE h \in HandlerIds : \A k \in HandlerIds : h <= k

NextFailure ==
    \/ \E u \in Users : HReceive(FailureHandler, u)
    \/ HSaveUser(FailureHandler)
    \/ \E outcome \in CatalogOutcomes, sent \in BOOLEAN : HCatalog(FailureHandler, outcome, sent)
    \/ \E message \in BOOLEAN : HImage(FailureHandler, message)
    \/ handlers[FailureHandler].pc = "gemini" /\ GeminiCall
    \/ \E o \in Outcomes : GeminiResponse(o)
    \/ GeminiWake
    \/ \E sent \in BOOLEAN :
          gem.pc = "returned" /\ HGemini(FailureHandler, GatewayReply(gem.result), sent)
    \/ gem.pc = "raised" /\ HGeminiRaises(FailureHandler)
    \/ \E sent \in BOOLEAN, sent_status \in BOOLEAN :
          HSaveModel(FailureHandler, sent, sent_status)

SpecFailure == Init /\ [][NextFailure]_vars

\* the token carries an internal error identifier or a remote error detail
Internal(token) ==
    \/ token = W("GEMINI_API_ERROR:")
    \/ token = W("GEMINI_RESPONSE_ISSUE:")
    \/ token.k = "detail"

\* C25: no text delivered to the user holds an internal error identifier, a
\* status code or a raw remote error detail.
C25_NoInternalErrorDelivered ==
    \A i \in 1..Len(outbox) :
        outbox[i].body.template = "reply" =>
            \A j \in 1..Len(outbox[i].body.text) : ~Internal(outbox[i].body.text[j])

(***************************************************************************)
(* Failures of the catalog read and of the order store inside a handler.   *)
(***************************************************************************)
\* the process_order call of handler h fails at the store in this step: the
\* insert or update answers without a record or raises, or a stock update raises
StoreFails(h) ==
    /\ handlers[h].pc = "order"
    /\ \/ WriteReturnsNone(handlers[h].task)
       \/ WriteRaises(handlers[h].task)
       \/ StockRaises(handlers[h].task)

\* a message goes out to user u in this step
SentTo(u) == Len(outbox') = Len(outbox) + 1 /\ outbox'[Len(outbox')].to = u

\* C26: whenever a persistence step fails while a message is handled, the
\* user is sent a generic apology for that message.  The step in which the
\* failure is seen is the last one of the handler, so the apology goes out in
\* that step or never; the steps looked at are those in which the WhatsApp
\* post itself succeeds.
C26_FailureApology ==
    [][\A h \in HandlerIds :
          /\ HCatalog(h, "empty", TRUE) => SentTo(handlers[h].user)
          /\ (HOrder(h, TRUE) /\ StoreFails(h)) =>
                /\ handlers'[h].pc = "done"
                /\ SentTo(handlers[h].user)]_vars

(***************************************************************************)
(* handle_user_message, the parsing of the inbound event (lines 346-360).  *)
(***************************************************************************)
\* msg.get("text", {}).get("body", ""), taken as it comes
received_text_unstripped(text) == text

\* msg.get("text", {}).get("body", "").strip()
received_text(text) == strip_tokens(text)

\* the handler returns at one of its two tests; an exception is raised and
\* caught by the outer except, which prints; the event carries a message
Returned == [outcome |-> "returned"]
Caught == [outcome |-> "caught"]
Message(from_number, text) == [outcome |-> "message", from_number |-> from_number, text |-> text]

is_list(v) == ~is_dict(v) /\ v.t = "list"

\* lines 346-360 on the event body
event_outcome(body) ==
    LET entries == dict_get(body, "entry", List(<<EmptyDict>>))
    IN  IF ~is_list(entries) \/ entries.items = <<>> THEN Caught
        ELSE
        LET entry == entries.items[1]
        IN  IF ~is_dict(entry) THEN Caught
            ELSE
            LET changes_list == dict_get(entry, "changes", List(<<EmptyDict>>))
            IN  IF ~is_list(changes_list) \/ changes_list.items = <<>> THEN Caught
                ELSE
                LET changes == changes_list.items[1]
                IN  IF ~is_dict(changes) \/ ~is_dict(dict_get(changes, "value", EmptyDict))
                    THEN Caught
                    ELSE
                    LET messages == dict_get(dict_get(changes, "value", EmptyDict),
                                             "messages", None)
                    IN  IF is_dict(messages) THEN Caught
                        ELSE IF ~Truthy(messages) THEN Returned
                        ELSE IF ~is_list(messages) THEN Caught
                        ELSE
                        LET msg == messages.items[1]
                        IN  IF ~is_dict(msg) \/ ~is_dict(dict_get(msg, "text", EmptyDict))
                            THEN Caught
                            ELSE
                            LET text_body == dict_get(dict_get(msg, "text", EmptyDict),
                                                      "body", Str(<<>>))
                                from_number == dict_get(msg, "from", None)
                            IN  IF is_dict(text_body) \/ text_body.t # "str" THEN Caught
                                ELSE IF received_text(text_body.s) = <<>> THEN Returned
                                ELSE IF is_dict(from_number) \/ ~Truthy(from_number)
                                     THEN Returned
                                     ELSE Message(from_number, received_text(text_body.s))

\* an event body around the value of its first change
Event(value) == [entry |-> List(<<[changes |-> List(<<[value |-> value]>>)]>>)]

EventWith(msg) == Event([messages |-> List(<<msg>>)])

\* events that carry no message
NoMessageEvents ==
    { EmptyDict,
      [entry |-> List(<<>>)],
      [entry |-> List(<<EmptyDict>>)],
      [entry |-> List(<<[changes |-> List(<<>>)]>>)],
      Event(EmptyDict),
      Event([statuses |-> List(<<[status |-> Str(<<"read">>)]>>)]),
      Event([messages |-> None]),
      Event([messages |-> List(<<>>)]) }

\* events whose message has no text, or an empty or white text
BlankTextEvents ==
    { EventWith([from |-> Str(<<"u1">>)]),
      EventWith([from |-> Str(<<"u1">>), text |-> EmptyDict]),
      EventWith([from |-> Str(<<"u1">>), text |-> [body |-> Str(<<>>)]]),
      EventWith([from |-> Str(<<"u1">>), text |-> [body |-> Str(<<WS(" "), WS("\n")>>)]]),
      EventWith([from |-> Str(<<"u1">>), text |-> None, type |-> Str(<<"image">>)]),
      EventWith([from |-> Str(<<"u1">>), text |-> [body |-> None]]) }

\* events whose message has no sender id
NoSenderEvents ==
    { EventWith([text |-> [body |-> Str(raw_text)]]),
      EventWith([from |-> None, text |-> [body |-> Str(raw_text)]]),
      EventWith([from |-> Str(<<>>), text |-> [body |-> Str(raw_text)]]) }

\* events with a sender and a text
MessageEvents ==
    { EventWith([from |-> Str(<<u>>), text |-> [body |-> Str(text)]]) :
         u \in Users, text \in {raw_text, <<WS(" ")>> \o raw_text \o <<WS("\n")>>} }

DroppedEvents == NoMessageEvents \cup BlankTextEvents \cup NoSenderEvents

\* handle_user_message(body) up to its first await, or to its return
HandleEvent(h, body) ==
    LET parsed == event_outcome(body)
    IN  IF parsed.outcome = "message"
        THEN /\ handlers[h].pc = "idle"
             /\ user_histories' = history_append(user_histories, parsed.from_number.s[1],
                                                 [role |-> "user", text |-> parsed.text])
             /\ handlers' = [handlers EXCEPT ![h].pc = "save_user",
                                             ![h].user = parsed.from_number.s[1]]
             /\ UNCHANGED <<outbox, order_vars, gateway_vars, extractor_vars>>
        ELSE /\ handlers[h].pc = "idle"
             /\ handlers' = [handlers EXCEPT ![h].pc = "done"]
             /\ UNCHANGED <<user_histories, outbox, order_vars, gateway_vars, extractor_vars>>

NextEvents ==
    \/ \E h \in HandlerIds, body \in DroppedEvents \cup MessageEvents : HandleEvent(h, body)
    \/ \E h \in HandlerIds : HSaveUser(h)
    \/ \E h \in HandlerIds, outcome \in CatalogOutcomes, sent \in BOOLEAN :
          HCatalog(h, outcome, sent)
    \/ \E h \in HandlerIds, message \in BOOLEAN : HImage(h, message)
    \/ \E h \in HandlerIds, reply \in TextReplies, sent \in BOOLEAN : HGemini(h, reply, sent)
    \/ \E h \in HandlerIds : HGeminiRaises(h)
    \/ \E h \in HandlerIds, sent \in BOOLEAN, sent_status \in BOOLEAN :
          HSaveModel(h, sent, sent_status)

SpecEvents == Init /\ [][NextEvents]_vars

\* C27: an event with no message, with an empty or white text, or with no
\* sender id is dropped silently: the handler returns, nothing is sent, no
\* gateway or store call is made, and user_histories, user_pending_data and
\* the order store are unchanged.
C27_MalformedEventDropped ==
    [][\A h \in HandlerIds, body \in DroppedEvents :
          HandleEvent(h, body) =>
              /\ handlers'[h] = [IdleHandler EXCEPT !.pc = "done"]
              /\ UNCHANGED <<user_histories, outbox, order_vars, gateway_vars>>]_vars

\* a handler has returned on an event without ever taking a user, beside a
\* handler that took a message
C27_Witness ==
    \E h \in HandlerIds, k \in HandlerIds :
        /\ handlers[h] = [IdleHandler EXCEPT !.pc = "done"]
        /\ handlers[k].pc = "save_user"
        /\ user_histories = [u \in {handlers[k].user} |-> <<[role |-> "user", text |-> raw_text]>>]
        /\ outbox = <<>>

(***************************************************************************)
(* handle_image_request_logic, the reading of the answer (lines 205-222).  *)
(***************************************************************************)
\* the first index of a token in the text, 0 when it is absent
find(text, token) ==
    IF \E i \in 1..Len(text) : text[i] = token
    THEN CHOOSE i \in 1..Len(text) :
            text[i] = token /\ \A j \in 1..(i - 1) : text[j] # token
    ELSE 0

\* re.search(r"\{[\s\S]*\}", llm_resp_text): from the first "{" to the last
\* "}" after it; the empty text stands for no match
image_match(answer) ==
    LET first == find(answer, P("{"))
        last == rfind(answer, <<P("}")>>)
    IN  IF first = 0 \/ last < first THEN <<>> ELSE SubSeq(answer, first, last)

\* bool(v) of a value json.loads built
json_truthy(v) ==
    IF is_dict(v) THEN DOMAIN v # {}
    ELSE IF v.t = "literal" THEN v.v # "false"
    ELSE Truthy(v)

\* lines 209-222 with an answer that fails to parse taken as an image request
wants_images_on_failure(answer) ==
    LET match == image_match(answer)
    IN  IF match = <<>> THEN FALSE
        ELSE LET parsed == json_loads(match)
             IN  IF ~parsed.ok THEN TRUE
                 ELSE json_truthy(dict_get(parsed.value, "want_images", literal_value("false")))

\* lines 209-222: the answer asks for images
wants_images(answer) ==
    LET match == image_match(answer)
    IN  IF match = <<>> THEN FALSE
        ELSE LET parsed == json_loads(match)
             IN  IF ~parsed.ok THEN FALSE
                 ELSE json_truthy(dict_get(parsed.value, "want_images", literal_value("false")))

Object(members) == <<P("{")>> \o members \o <<P("}")>>

\* answers with no JSON object in them
AnswersWithoutObject ==
    { <<>>,
      <<W("No")>>,
      <<W("GEMINI_API_ERROR:"), WS(" "), W("Timeout")>>,
      <<S("want_images"), P(":"), W("false")>>,
      <<P("}"), WS(" "), P("{")>>,
      <<P("{"), S("want_images"), P(":"), W("true")>> }

\* answers whose object fails to parse
AnswersUnparsable ==
    { Object(<<W("want_images"), P(":"), W("true")>>),
      Object(Member("want_images", <<W("True")>>)),
      Object(Member("want_images", <<W("true")>>) \o <<P(",")>>),
      Object(Member("want_images", <<W("true")>>) \o <<P(",")>>
                \o Member("target", <<S("tequila")>>) \o <<P("}")>>),
      Object(<<P("{")>> \o Member("want_images", <<W("true")>>)),
      <<P("{"), P("}"), P("}")>> }

\* answers whose object parses and asks for no image
AnswersNoIntent ==
    { Object(<<>>),
      Object(Member("want_images", <<W("false")>>) \o <<P(",")>>
                \o Member("target", <<null>>) \o <<P(",")>>
                \o Member("clarification_needed", <<null>>)),
      Object(Member("want_images", <<null>>)),
      <<Fence, W("json"), WS("\n")>> \o Object(Member("want_images", <<W("false")>>))
          \o <<WS("\n"), Fence>> }

\* answers whose object parses and asks for images
AnswersIntent ==
    { Object(Member("want_images", <<W("true")>>) \o <<P(",")>>
                \o Member("target", <<S("tequila")>>) \o <<P(",")>>
                \o Member("clarification_needed", <<null>>)),
      Object(Member("want_images", <<W("true")>>) \o <<P(",")>>
                \o Member("target", <<null>>) \o <<P(",")>>
                \o Member("clarification_needed", <<S("which")>>)),
      <<W("Claro"), WS(" ")>> \o Object(Member("want_images", <<W("true")>>)),
      Object(Member("want_images", <<W("NaN")>>)) }

ImageAnswers == AnswersWithoutObject \cup AnswersUnparsable \cup AnswersNoIntent \cup AnswersIntent

\* the answer to the image prompt arrives: with an image request one message
\* is sent (or its post fails) and the TypeError of its await makes the
\* function return False; the general prompt is built and the generation
\* service is asked
HImageAnswer(h, answer, sent) ==
    /\ handlers[h].pc = "image"
    /\ handlers' = [handlers EXCEPT ![h].pc = "gemini"]
    /\ outbox' = Deliver(outbox, handlers[h].user, [template |-> "image"],
                         wants_images(answer) /\ sent)
    /\ UNCHANGED <<user_histories, order_vars, gateway_vars, extractor_vars>>

NextImage ==
    \/ \E h \in HandlerIds, u \in Users : HReceive(h, u)
    \/ \E h \in HandlerIds : HSaveUser(h)
    \/ \E h \in HandlerIds, outcome \in CatalogOutcomes, sent \in BOOLEAN :
          HCatalog(h, outcome, sent)
    \/ \E h \in HandlerIds, answer \in ImageAnswers, sent \in BOOLEAN :
          HImageAnswer(h, answer, sent)
    \/ \E h \in HandlerIds, reply \in TextReplies, sent \in BOOLEAN : HGemini(h, reply, sent)
    \/ \E h \in HandlerIds : HGeminiRaises(h)
    \/ \E h \in HandlerIds, sent \in BOOLEAN, sent_status \in BOOLEAN :
          HSaveModel(h, sent, sent_status)

SpecImage == Init /\ [][NextImage]_vars

\* C28: when the answer to the image prompt has no JSON object or one that
\* fails to parse, handle_image_request_logic returns False and sends
\* nothing, and handle_user_message goes on to the general sales flow.
C28_UnreadableAnswerIsNoIntent ==
    [][\A h \in HandlerIds, answer \in AnswersWithoutObject \cup AnswersUnparsable :
          (\E sent \in BOOLEAN : HImageAnswer(h, answer, sent)) =>
              /\ outbox' = outbox
              /\ handlers'[h].pc = "gemini"]_vars

\* the only handler that ran went past the image step and delivered the
\* reply of the general flow, and nothing else
C28_Witness ==
    /\ handlers[1].pc = "done"
    /\ handlers[2].pc = "idle"
    /\ outbox = <<[to |-> handlers[1].user, body |-> ReplyBody(<<W("Hola")>>)]>>
    /\ Len(user_histories[handlers[1].user]) = 2

(***************************************************************************)
(* The entries of user_pending_data and user_orders a call touches.        *)
(***************************************************************************)
\* the entry of user u in the dict d differs between the two states of a step
EntryChanged(old, new, u) ==
    \/ (u \in DOMAIN old) # (u \in DOMAIN new)
    \/ u \in DOMAIN old /\ u \in DOMAIN new /\ old[u] # new[u]

Touched(u) ==
    \/ EntryChanged(user_pending_data, user_pending_data', u)
    \/ EntryChanged(user_orders, user_orders', u)

\* a suspended call of user u takes the step
ResumesFor(u) ==
    \E t \in TaskIds : tasks[t].pc # "idle" /\ tasks[t].user = u /\ tasks'[t] # tasks[t]

\* the payloads of the calls: contact data alone, and a whole order
EntryPayloads ==
    { Contacts(Str(s_Ana), Str(s_300)),
      FullOrder(Str(s_Bo), Str(s_300), items_T1R2) }

\* process_order called for both users with these payloads, every outcome
\* of its awaited calls, and the clock
NextEntries ==
    \/ \E u \in Users, d \in EntryPayloads : Start(u, d) /\ OrdersOnly
    \/ \E t \in TaskIds : Lookup(t) /\ OrdersOnly
    \/ \E t \in TaskIds : LookupRaises(t) /\ OrdersOnly
    \/ \E t \in TaskIds : Write(t) /\ OrdersOnly
    \/ \E t \in TaskIds : WriteReturnsNone(t) /\ OrdersOnly
    \/ \E t \in TaskIds : WriteRaises(t) /\ OrdersOnly
    \/ \E t \in TaskIds : Stock(t) /\ OrdersOnly
    \/ \E t \in TaskIds : StockRaises(t) /\ OrdersOnly
    \/ \E d \in TickSteps : Tick(d) /\ OrdersOnly

SpecEntries == Init /\ [][NextEntries]_vars

\* C29: a process_order call for user u changes only u's entry of
\* user_pending_data and of user_orders: the PendingOrder of every other
\* user is unchanged, and each user has at most one PendingOrder.
C29_OnlyOwnEntry ==
    [][/\ \A u \in Users :
             Touched(u) =>
                /\ \A v \in Users \ {u} : ~Touched(v)
                /\ IF calls' = calls
                   THEN ResumesFor(u)
                   ELSE \A t \in TaskIds : tasks'[t] # tasks[t] => tasks'[t].user = u
       /\ DOMAIN user_pending_data' \subseteq Users
       /\ \A u \in DOMAIN user_pending_data' : is_dict(user_pending_data'[u])]_vars

\* the call of one user has ended with its record and its entry popped,
\* while the PendingOrder of the other user, begun before, is still there
C29_Witness ==
    /\ DOMAIN user_orders = {"u1"}
    /\ DOMAIN user_pending_data = {"u2"}
    /\ user_pending_data["u2"] # EmptyDict
    /\ Len(orders) = 1
    /\ \A t \in TaskIds : tasks[t].pc = "idle"

(***************************************************************************)
(* build_catalog and match_target_in_catalog on catalog snapshots.  A      *)
(* product is a record of the products table with its variants and images; *)
(* the options of a variant are its (key, value) pairs in order.           *)
(***************************************************************************)
RECURSIVE join(_, _)
\* sep.join(parts)
join(sep, parts) ==
    IF parts = <<>> THEN <<>>
    ELSE IF Len(parts) = 1 THEN parts[1]
    ELSE parts[1] \o sep \o join(sep, Tail(parts))

RECURSIVE flatten(_)
\* the concatenation of a sequence of sequences
flatten(seqs) == IF seqs = <<>> THEN <<>> ELSE Head(seqs) \o flatten(Tail(seqs))

\* lines 45-52: the urls of the images of variant id, and those of no variant
images_of_variant(p, id) ==
    LET imgs == SelectSeq(dict_get(p, "product_images", <<>>),
                          LAMBDA img : img.variant_id = id)
    IN  [i \in 1..Len(imgs) |-> imgs[i].url]

images_general(p) == images_of_variant(p, None)

\* lines 46-50: the ids that have an entry in variant_labels_from_images, and
\* the entry: the label of the last image of the id that has a label
labelled_ids(p) ==
    LET imgs == dict_get(p, "product_images", <<>>)
    IN  {imgs[i].variant_id : i \in {k \in 1..Len(imgs) :
                                      imgs[k].variant_id # None /\ Truthy(imgs[k].variant_label)}}

variant_labels_from_images(p, id) ==
    LET imgs == dict_get(p, "product_images", <<>>)
        last == CHOOSE i \in 1..Len(imgs) :
                   /\ imgs[i].variant_id = id /\ Truthy(imgs[i].variant_label)
                   /\ \A k \in (i + 1)..Len(imgs) :
                         ~(imgs[k].variant_id = id /\ Truthy(imgs[k].variant_label))
    IN  lower(strip(imgs[last].variant_label.s))

RECURSIVE without_duplicates(_)
\* list(set(urls)): each url once; the order of the list is not determined
\* by the language, the order of first occurrence stands for it
without_duplicates(urls) ==
    IF urls = <<>> THEN <<>>
    ELSE <<Head(urls)>> \o without_duplicates(SelectSeq(Tail(urls), LAMBDA u : u # Head(urls)))

\* lines 72-84: the images of a variant, by id and then by the label recorded
\* for the id
variant_images(p, v) ==
    LET by_id == images_of_variant(p, v.id)
    IN  IF by_id = <<>> /\ v.id \in labelled_ids(p)
        THEN LET same == SelectSeq(dict_get(p, "product_images", <<>>),
                            LAMBDA img : /\ Truthy(img.variant_label)
                                         /\ lower(strip(img.variant_label.s))
                                               = variant_labels_from_images(p, v.id))
             IN  without_duplicates([i \in 1..Len(same) |-> same[i].url])
        ELSE by_id

\* lines 55-93: the catalog entry of one variant
variant_data(p, v) ==
    [id |-> v.id,
     value |-> lower(strip(v.options[1][2])),
     display_label |-> join(<<",", " ">>,
                            [i \in 1..Len(v.options) |->
                                v.options[i][1] \o <<":">> \o v.options[i][2]]),
     catalog_variant_label |-> join(<<",">>,
                            [i \in 1..Len(v.options) |->
                                v.options[i][1] \o <<":">> \o lower(strip(v.options[i][2]))]),
     images |-> variant_images(p, v)]

\* lines 34-100
build_catalog(productos_list) ==
    [i \in 1..Len(productos_list) |->
        LET p == productos_list[i]
            with_options == SelectSeq(dict_get(p, "product_variants", <<>>),
                                      LAMBDA v : v.options # <<>>)
        IN  [name |-> p.name,
             variants |-> [j \in 1..Len(with_options) |-> variant_data(p, with_options[j])],
             images |-> images_general(p)]]

Choice(key, name, item) == [key |-> key, name |-> name, item |-> item]

\* lines 114-139: the choices in the order they are appended
catalog_choices(catalog_list) ==
    flatten([i \in 1..Len(catalog_list) |->
        LET entry == catalog_list[i]
            prod_name_lower == lower(strip(entry.name))
        IN  <<Choice(prod_name_lower, entry.name, None)>> \o
            flatten([j \in 1..Len(entry.variants) |->
                LET v_catalog == entry.variants[j]
                    label == lower(strip(v_catalog.display_label))
                IN  << Choice(v_catalog.value, entry.name, v_catalog),
                       Choice(label, entry.name, v_catalog),
                       Choice(prod_name_lower \o <<" ">> \o v_catalog.value,
                              entry.name, v_catalog),
                       Choice(prod_name_lower \o <<" ">> \o label, entry.name, v_catalog) >>])])

\* choice_to_item_map[key]: the last assignment to the key
choice_to_item_map(choices, key) ==
    choices[CHOOSE i \in 1..Len(choices) :
               /\ choices[i].key = key
               /\ \A j \in (i + 1)..Len(choices) : choices[j].key # key]

\* get_close_matches(word, possibilities, n=1, cutoff=0.6) for a word that is
\* among the possibilities: its ratio is 1.0, and only the word itself has it
get_close_matches(word, choices) ==
    IF \E i \in 1..Len(choices) : choices[i].key = word THEN <<word>> ELSE <<>>

NoMatch == [product |-> None, variant |-> None]

\* lines 103-163
match_target_in_catalog(catalog_list, productos_list, target_str) ==
    IF target_str = <<>> THEN NoMatch
    ELSE
    LET choices == catalog_choices(catalog_list)
        best_matches == get_close_matches(lower(strip(target_str)), choices)
    IN  IF best_matches = <<>> THEN NoMatch
        ELSE
        LET matched == choice_to_item_map(choices, best_matches[1])
            found == {i \in 1..Len(productos_list) : productos_list[i].name = matched.name}
        IN  IF found = {} THEN NoMatch
            ELSE [product |-> productos_list[CHOOSE i \in found : \A j \in found : i <= j],
                  variant |-> matched.item]

n_Ron == <<"R","o","n">>
n_ron == <<"r","o","n">>
n_Gin == <<"G","i","n">>
n_Color == <<"C","o","l","o","r">>
n_Azul == <<"A","z","u","l">>

Variant(id, value) == [id |-> Num(id), options |-> <<<<n_Color, value>>>>]

Image(url, variant_id) == [url |-> url, variant_id |-> variant_id, variant_label |-> None]

LabelledImage(url, variant_id, label) ==
    [url |-> url, variant_id |-> variant_id, variant_label |-> Str(label)]

\* the rows of the products table the snapshots are made of
ProductRows ==
    { [name |-> name, product_variants |-> variants, product_images |-> images] :
        name \in {n_Ron, n_ron, n_Gin},
        variants \in { <<>>, <<Variant(1, n_Azul)>>, <<Variant(1, n_Azul), Variant(2, n_Ron)>>,
                       <<[id |-> Num(3), options |-> <<>>]>> },
        images \in { <<>>,
                     <<Image("general", None), Image("azul", Num(1))>>,
                     <<LabelledImage("azul1", Num(1), n_Azul), Image("azul2", Num(1))>>,
                     <<Image("general", None), LabelledImage("azul", None, n_Azul)>> } }

MaxProducts == 2

Snapshots == UNION { [1..n -> ProductRows] : n \in 1..MaxProducts }

\* no two products of the snapshot have the same name up to letter case, and
\* no variant value or label is the name of a product up to letter case
NamesApart(productos_list) ==
    LET choices == catalog_choices(build_catalog(productos_list))
    IN  \A i \in 1..Len(productos_list) :
           \A k \in 1..Len(choices) :
               choices[k].key = lower(strip(productos_list[i].name)) =>
                   choices[k].item = None /\ choices[k].name = productos_list[i].name
                   /\ \A j \in 1..Len(productos_list) :
                         productos_list[j].name = productos_list[i].name => j = i

\* a snapshot is read and a product of it is asked for by its exact name
Resolve(productos_list, i) ==
    /\ resolved.pc = "idle"
    /\ resolved' = [pc |-> "matched", productos |-> productos_list, i |-> i,
                    result |-> match_target_in_catalog(build_catalog(productos_list),
                                                       productos_list, productos_list[i].name)]
    /\ UNCHANGED <<ext, order_vars, gateway_vars, handler_vars>>

\* the next request
Forget ==
    /\ resolved.pc = "matched"
    /\ resolved' = NotResolved
    /\ UNCHANGED <<ext, order_vars, gateway_vars, handler_vars>>

\* a snapshot is read and variant j of the catalog entry of product i is asked
\* for by its value
ResolveToken(productos_list, i, j) ==
    /\ resolved.pc = "idle"
    /\ LET catalog_list == build_catalog(productos_list)
       IN  /\ j <= Len(catalog_list[i].variants)
           /\ resolved' = [pc |-> "token", productos |-> productos_list, i |-> i, j |-> j,
                           result |-> match_target_in_catalog(catalog_list, productos_list,
                                                  catalog_list[i].variants[j].value)]
    /\ UNCHANGED <<ext, order_vars, gateway_vars, handler_vars>>

MaxVariants == 2

NextCatalog ==
    \/ \E productos_list \in Snapshots, i \in 1..MaxProducts :
          i <= Len(productos_list) /\ Resolve(productos_list, i)
    \/ \E productos_list \in Snapshots, i \in 1..MaxProducts, j \in 1..MaxVariants :
          i <= Len(productos_list) /\ ResolveToken(productos_list, i, j)
    \/ Forget

SpecCatalog == Init /\ [][NextCatalog]_vars

\* C30: for every snapshot and every product in it, match_target_in_catalog
\* on build_catalog's output with the product's exact name as the target
\* returns that product with no variant, also when a variant value or the
\* name of another product equals the name up to letter case.
C30_ExactNameResolves ==
    resolved.pc = "matched" =>
        /\ resolved.result.product = resolved.productos[resolved.i]
        /\ resolved.result.variant = None

\* the same for the snapshots whose names stand apart
C30_ExactNameResolvesApart ==
    (resolved.pc = "matched" /\ NamesApart(resolved.productos)) =>
        /\ resolved.result.product = resolved.productos[resolved.i]
        /\ resolved.result.variant = None

\* the variants of the catalog, as (product, variant) index pairs, whose value
\* is the token
TokenOwners(productos_list, token) ==
    LET catalog_list == build_catalog(productos_list)
    IN  {pair \in (1..Len(catalog_list)) \X (1..MaxVariants) :
            /\ pair[2] <= Len(catalog_list[pair[1]].variants)
            /\ catalog_list[pair[1]].variants[pair[2]].value = token}

AskedVariant == build_catalog(resolved.productos)[resolved.i].variants[resolved.j]

\* C31: for every snapshot and every variant whose value (the lowercased
\* option value) belongs to exactly one variant of the catalog,
\* match_target_in_catalog with that value as the target returns the owning
\* product together with that variant.
C31_UniqueTokenResolves ==
    (/\ resolved.pc = "token"
     /\ Cardinality(TokenOwners(resolved.productos, AskedVariant.value)) = 1) =>
        /\ resolved.result.product = resolved.productos[resolved.i]
        /\ resolved.result.variant = AskedVariant

\* C32: when the target is a variant value that belongs to variants of more
\* than one product, match_target_in_catalog returns (None, None).
C32_AmbiguousTokenUnresolved ==
    (/\ resolved.pc = "token"
     /\ Cardinality({pair[1] : pair \in TokenOwners(resolved.productos, AskedVariant.value)}) > 1)
        => resolved.result = NoMatch

(***************************************************************************)
(* The images handle_image_request_logic sends for a resolved pair.        *)
(***************************************************************************)
\* lines 244-259: image_urls_to_send
image_urls_to_send(catalog_data, matched_product, matched_variant) ==
    LET of_variant == IF matched_variant # None THEN matched_variant.images ELSE <<>>
        entries == {i \in 1..Len(catalog_data) : catalog_data[i].name = matched_product.name}
    IN  IF of_variant # <<>> THEN of_variant
        ELSE IF entries = {} THEN <<>>
        ELSE catalog_data[CHOOSE i \in entries : \A k \in entries : i <= k].images

\* the urls of the images of a product that satisfy a test, in their order
UrlsWhere(p, Test(_)) ==
    LET imgs == SelectSeq(p.product_images, Test)
    IN  [i \in 1..Len(imgs) |-> imgs[i].url]

\* the first non-empty list of: the images tagged with the variant's id, the
\* images whose label is the variant's normalized label, the general images
first_nonempty_images(p, variant) ==
    LET tagged == UrlsWhere(p, LAMBDA img : img.variant_id = variant.id)
        labelled == UrlsWhere(p, LAMBDA img :
                        /\ Truthy(img.variant_label)
                        /\ lower(strip(img.variant_label.s))
                              \in {variant.value, variant.catalog_variant_label})
        general == UrlsWhere(p, LAMBDA img : img.variant_id = None)
    IN  IF variant = None THEN general
        ELSE IF tagged # <<>> THEN tagged
        ELSE IF labelled # <<>> THEN labelled
        ELSE general

\* C33: the images for a resolved (product, variant) pair are the first
\* non-empty list of: images tagged with the variant's id, images whose
\* label matches the variant's normalized label, the product's general
\* images; a product-only match yields the general images.
C33_ImageResolutionOrder ==
    (resolved.pc \in {"matched", "token"} /\ resolved.result # NoMatch) =>
        image_urls_to_send(build_catalog(resolved.productos),
                           resolved.result.product, resolved.result.variant)
            = first_nonempty_images(resolved.result.product, resolved.result.variant)

(***************************************************************************)
(* Calls of ask_gemini_with_history one after the other.  A request that   *)
(* exceeds REQUEST_TIMEOUT_SECONDS raises httpx.TimeoutException, a        *)
(* subclass of httpx.RequestError.                                         *)
(***************************************************************************)
RetryOutcomes ==
    { o \in Outcomes :
        \/ o.kind = "request_error"
        \/ o.kind = "http_error" /\ o.status \in {429, 503}
              /\ o.body.json \in {NotJSON, [error |-> None]}
        \/ o.kind = "http_error" /\ o.status = 400 /\ o.body.json = NotJSON
        \/ o.kind = "ok" /\ o.data = EmptyDict }
    \cup { [kind |-> "timeout"] }

\* the caller has the value or the exception; the next call can begin
GeminiDone ==
    /\ gem.pc \in {"returned", "raised"}
    /\ gem' = IdleGem
    /\ UNCHANGED <<order_vars, extractor_vars, handler_vars>>

NextRetry ==
    \/ GeminiCall
    \/ \E o \in RetryOutcomes : GeminiResponse(o)
    \/ GeminiWake
    \/ GeminiDone

\* the POST ends within the request timeout and the sleep ends
SpecRetry ==
    /\ Init /\ [][NextRetry]_vars
    /\ WF_vars(\E o \in RetryOutcomes : GeminiResponse(o))
    /\ WF_vars(GeminiWake)

\* a failure the retry policy counts
Counted(o) ==
    \/ o.kind \in {"request_error", "timeout"}
    \/ o.kind = "http_error" /\ o.status \in {429, 503}

\* C34: every ask_gemini_with_history call terminates after at most
\* MAX_RETRIES + 1 = 4 HTTP attempts and at most 3 sleeps; overload (429/503)
\* failures, network failures and request timeouts are counted by one
\* counter; the counter and the backoff start fresh on every call.
C34_CallTerminatesWithinRetries ==
    /\ [](/\ gem.attempts <= MAX_RETRIES + 1
          /\ Len(gem.sleeps) <= MAX_RETRIES
          /\ gem.pc = "post" =>
                /\ gem.attempts = gem.current_retry + 1
                /\ Len(gem.seen) = gem.current_retry
                /\ \A i \in 1..Len(gem.seen) : Counted(gem.seen[i])
          /\ (gem.pc = "post" /\ gem.attempts = 1) =>
                gem.current_backoff = INITIAL_BACKOFF_SECONDS /\ gem.sleeps = <<>>)
    /\ (gem.pc \in {"post", "sleep"}) ~> (gem.pc \in {"returned", "raised"})

\* a call has returned after four attempts that failed in four ways
C34_Witness ==
    /\ gem.pc = "returned"
    /\ gem.attempts = MAX_RETRIES + 1
    /\ Len(gem.sleeps) = MAX_RETRIES
    /\ Len(gem.seen) = 4
    /\ gem.seen[1].kind = "http_error" /\ gem.seen[1].status = 429
    /\ gem.seen[2].kind = "timeout"
    /\ gem.seen[3].kind = "request_error"
    /\ gem.seen[4].kind = "http_error" /\ gem.seen[4].status = 503

\* C35: for one inbound message the user never receives both image-flow
\* output and a general sales reply: handle_image_request_logic returns False
\* (the handler goes on to the sales generation call) only if it has sent
\* nothing to the user, and after True the handler makes no generation call,
\* appends no model turn and does not call process_order.
C35_ImageOrSalesReply ==
    [][\A h \in HandlerIds :
          /\ (handlers[h].pc = "image" /\ handlers'[h].pc = "gemini") => outbox' = outbox
          /\ (handlers[h].pc = "image" /\ handlers'[h] # handlers[h] /\ outbox' # outbox) =>
                handlers'[h].pc = "done"]_vars

(***************************************************************************)
(* Finalizations one after the other, every store call answering: the      *)
(* calls of process_order do not overlap and no awaited call fails.        *)
(***************************************************************************)
FoldPayloads == EntryPayloads \cup {FullOrder(Str(s_Ana), Str(s_300), items_T2)}

\* process_order is called when no call is in flight
StartFold(u, order_data) ==
    /\ \A t \in TaskIds : tasks[t].pc = "idle"
    /\ Start(u, order_data)

NextFold ==
    \/ \E u \in Users, d \in FoldPayloads : StartFold(u, d) /\ OrdersOnly
    \/ \E t \in TaskIds : Lookup(t) /\ OrdersOnly
    \/ \E t \in TaskIds : Write(t) /\ OrdersOnly
    \/ \E t \in TaskIds : Stock(t) /\ OrdersOnly
    \/ \E d \in TickSteps : Tick(d) /\ OrdersOnly

SpecFold == Init /\ [][NextFold]_vars

\* C36: after finalizations that the dedup window folds into one OrderRecord
\* (an insert followed by in-place updates), the stock of each product has
\* gone down by the product's quantity in the resulting record, floored at
\* zero: a line item already counted is not taken again.
C36_FoldedStockCountedOnce ==
    (/\ \A t \in TaskIds : tasks[t].pc = "idle"
     /\ Len(orders) = 1
     /\ DOMAIN user_orders # {}) =>
        stock = stock_after([p \in Products |-> InitStock], orders[1].products.items)

\* the senders whose last finalization wrote record id
Finalizers(id) == {u \in DOMAIN user_orders : user_orders[u].id = id}

\* C37: a finalization triggered by one sender never modifies an OrderRecord
\* created by a different sender: the record the dedup lookup selects for the
\* update in place is a record of the same sender, whatever phone the
\* payload carries.
C37_UpdateOnlyOwnRecord ==
    [][\A t \in TaskIds :
          (Write(t) /\ tasks[t].existing # 0) =>
              \/ Finalizers(tasks[t].existing) = {}
              \/ tasks[t].user \in Finalizers(tasks[t].existing)]_vars

\* the records of a customer key whose timestamp is less than 5 minutes
\* before the instant `now`
WithinWindow(key, now) ==
    {id \in 1..Len(orders) :
        /\ orders[id].phone_number = key
        /\ orders[id].created_at <= now
        /\ now - orders[id].created_at < FIVE_MINUTES}

\* C38: the dedup window slides.  Every update in place rewrites the
\* record's timestamp to the time of the update, so a finalization less than
\* 5 minutes after the previous one for the same customer key updates the
\* same single OrderRecord, also when the chain spans more than 5 minutes.
C38_WindowSlides ==
    [][\A t \in TaskIds :
          (Write(t) /\ WithinWindow(tasks[t].payload.phone_number, tasks[t].now) # {}) =>
              /\ tasks[t].existing \in WithinWindow(tasks[t].payload.phone_number, tasks[t].now)
              /\ Len(orders') = Len(orders)
              /\ orders'[tasks[t].existing].created_at = tasks[t].now]_vars

\* C39: whenever extract_order_data returns no payload (None), the clean text
\* it returns is the reply text unchanged, also when the trailing block is
\* valid JSON whose order_details value is null.
C39_NoPayloadKeepsText ==
    (ext.pc = "done" /\ ext.order_data = None) => ext.clean = ext.reply.text

\* C40: within one process_order call the order write precedes every stock
\* decrement, and stock is decremented only if the write returned a record
\* with an id: a call that returns 'missing' or 'error' has changed the stock
\* of no product.
C40_StockOnlyAfterWrite ==
    [][/\ stock' # stock =>
             \E t \in TaskIds :
                /\ tasks[t].pc = "stock"
                /\ tasks'[t] # tasks[t]
                /\ tasks[t].res_id \in 1..Len(orders)
       /\ \A t \in TaskIds : tasks[t].pc \in {"lookup", "write"} => tasks[t].i = 0
       /\ calls' # calls => stock' = stock
       /\ \A t \in TaskIds : WriteReturnsNone(t) => stock' = stock]_vars

\* a call whose write returned record 1 has taken the stock of its first line
\* item and is about to take the second
C40_Witness ==
    \E t \in TaskIds :
        /\ tasks[t].pc = "stock"
        /\ tasks[t].i = 2
        /\ tasks[t].res_id = 1
        /\ Len(orders) = 1
        /\ stock = [p \in Products |-> IF p = "Tequila" THEN InitStock - 1 ELSE InitStock]

====
